---- MODULE Spec2Model ----
(***************************************************************************)
(* Model of the CDC ingestion pipeline of the Neotree FHIR adapter:        *)
(* CDCService (services/cdc-service.ts) and the SQL functions of           *)
(* database/setup-cdc.sql that it calls.                                   *)
(*                                                                         *)
(* Time is an integer clock whose unit is five minutes: the period of the  *)
(* retry cron schedule and the length of the retry cooldown.  NOW() is the *)
(* value of the clock.  The service is constructed at instant Cooldown + 2,*)
(* the earliest instant at which a failure recorded at instant 1 is past   *)
(* its cooldown.  Every await of the service is an interleaving point: a   *)
(* poll or retry cycle is a record that the per-row steps advance.         *)
(***************************************************************************)
EXTENDS Integers, Sequences, FiniteSets, TLC

VARIABLES
    now,                \* wall clock, NOW()
    sessions,           \* the source table (rows written by the external writer)
    cdc_watermark,      \* the singleton row of table cdc_watermark
    cdc_failed_records, \* table cdc_failed_records
    failed_id_seq,      \* sequence cdc_failed_records_id_seq (SERIAL id)
    batchSize,          \* CDCService.batchSize, fixed at construction
    isPolling,          \* CDCService.isPolling
    pollTask,           \* CDCService.pollTask: TRUE when a cron task is scheduled
    retryTask,          \* CDCService.retryTask: TRUE when a cron task is scheduled
    pollDue,            \* the poll schedule has a tick to fire at this instant
    retryDue,           \* the retry schedule has a tick to fire at this instant
    polls,              \* in-flight pollForNewSessions/processBatch cycles
    retries,            \* in-flight retryFailedSessions/retryBatch cycles
    submitted,          \* ids of the sessions the downstream registry has accepted
    openhimUp,          \* the downstream registry (OpenHIM) accepts submissions
    handed,             \* ids of the rows the poller has taken through its try block
    pool,               \* database/pool.ts: the module variable pool and its state
    resyncs,            \* AdapterService.processSyncedEntry calls and their state
    dbFaults,           \* the environment: queries on a live pool may fail
    dd,                 \* a call of the duplicate-detection engine and its result
    starting,           \* CDCService.start calls that await their SELECT 1
    orphanTasks,        \* cron tasks run that no field of the service refers to
    recorded            \* history: per session, the failure writes executed on its entry

vars == <<now, sessions, cdc_watermark, cdc_failed_records, failed_id_seq,
          batchSize, isPolling, pollTask, retryTask, pollDue, retryDue, polls, retries,
          submitted, openhimUp, handed, pool, resyncs, dbFaults, dd, starting, orphanTasks, recorded>>

(***************************************************************************)
(* Bounds of the model.                                                    *)
(***************************************************************************)
\* last instant of the clock
MaxTime == 4
\* start() calls that await their connectivity check at one time
MaxStarts == 2
\* longest string handed to the duplicate-detection engine
MaxStrLen == 2
\* letters of the alphabet; each has a lower-case and an upper-case form
Letters == 2
\* rules of the duplicate-detection configuration
MaxRules == 2
\* entries of the bundle a duplicate search returns
MaxCandidates == 3
\* characters of the longest configured encryption key
MaxKeyChars == 34
\* characters of a configured key that take two bytes in UTF-8
MaxWide == 2
\* longest string handed to the string-matching functions on their own
MaxDistLen == 4
\* rows the external writer inserts over a run
MaxRows == 3
\* rows the external writer inserts in one transaction (they share NOW())
MaxBurst == 3
\* poll cycles that may be in flight together
MaxPollCycles == 2
\* retry cycles that may be in flight together
MaxRetryCycles == 2
\* calls of AdapterService.processSyncedEntry over a run
MaxResyncs == 2
\* entries of cdc_failed_records when the resync path is exercised
MaxEntries == 2
\* largest value of CDCService.batchSize (100 in the source)
MaxBatchSize == 2
\* failures a previous run of the service left in cdc_failed_records
MaxPrior == 3
\* stand-in for the literal 50 passed to get_failed_sessions_for_retry
retryBatchSize == 2

(***************************************************************************)
(* Program constants.                                                      *)
(***************************************************************************)
\* INTERVAL '5 minutes' of get_failed_sessions_for_retry, in clock units
Cooldown == 1
\* SQL NULL of the nullable integer and timestamp columns
NULL == -1
\* watermark_start: the epoch
WatermarkStart == 0
\* SQL NULL of a text column
NULLTEXT == "NULL"
\* the value of dd while the duplicate-detection engine is not exercised
noCall == [op |-> "none"]
\* a null or absent string (the empty string is the empty sequence)
null == <<NULL>>

(***************************************************************************)
(* Values of the data column.  A JSONB value is an object or a scalar; an  *)
(* object may wrap the entry in a "data" property (inner; the writer of    *)
(* the source table stores the entry itself, inner = "none").  ok says     *)
(* that the entry passes the validation of AdapterService.processEntry.    *)
(* A JS string holding JSON text has kind "string" and remembers in `of`   *)
(* the kind of the value it serialises.                                    *)
(***************************************************************************)
Obj(ok) == [kind |-> "object", inner |-> "none", ok |-> ok, of |-> "none"]
Scalar == [kind |-> "scalar", inner |-> "none", ok |-> FALSE, of |-> "none"]

\* the payloads the external writer produces
SessionData == {Obj(TRUE), Obj(FALSE), Scalar}

\* JSON.stringify(record.data)
JSONstringify(d) == [d EXCEPT !.kind = "string", !.of = d.kind]

\* JSON.parse, the inverse of JSONstringify on its range
JSONparse(s) == [s EXCEPT !.kind = s.of, !.of = "none"]

\* JSON.parse throws a SyntaxError on a text that is not JSON
isJSON(s) == s.kind = "string" /\ s.of # "none"

\* a text that is not JSON
garbled == [kind |-> "string", inner |-> "none", ok |-> FALSE, of |-> "none"]

\* the impilo_uid column of a session row (optional)
ImpiloUid(id) == IF id % 2 = 1 THEN id ELSE NULL

(***************************************************************************)
(* CDCService.convertToNeotreeEntry                                        *)
(***************************************************************************)
convertToNeotreeEntry(data) ==
    IF data.kind # "object"
    THEN [ok |-> FALSE, error |-> "Invalid session data", entry |-> data]
    ELSE IF data.inner = "scalar"
    THEN [ok |-> FALSE, error |-> "Invalid session payload", entry |-> data]
    ELSE [ok |-> TRUE, error |-> "", entry |-> Obj(data.ok)]

(***************************************************************************)
(* AdapterService.processEntry: validation rejects an entry that is not    *)
(* ok; sendBundle throws while the downstream registry is unreachable.     *)
(***************************************************************************)
processEntry(entry, up) ==
    IF ~entry.ok THEN [ok |-> FALSE, error |-> "Validation failed"]
    ELSE IF ~up THEN [ok |-> FALSE, error |-> "OpenHIM request failed"]
    ELSE [ok |-> TRUE, error |-> ""]

\* the body of the try block of processBatch and retryBatch for one record
attempt(data, up) ==
    LET conv == convertToNeotreeEntry(data)
    IN  IF ~conv.ok
        THEN [ok |-> FALSE, error |-> conv.error, called |-> FALSE, entry |-> data]
        ELSE LET res == processEntry(conv.entry, up)
             IN  [ok |-> res.ok, error |-> res.error, called |-> TRUE, entry |-> conv.entry]

(***************************************************************************)
(* Ordering helpers for ORDER BY ... LIMIT.                                *)
(***************************************************************************)
Min(a, b) == IF a < b THEN a ELSE b

\* lexicographic order on (timestamp, id)
PosLeq(t1, i1, t2, i2) == t1 < t2 \/ (t1 = t2 /\ i1 <= i2)

RECURSIVE SortSessions(_)
\* ORDER BY s.ingested_at ASC, s.id ASC
SortSessions(S) ==
    IF S = {} THEN <<>>
    ELSE LET first == CHOOSE r \in S :
                 \A q \in S : PosLeq(r.ingested_at, r.id, q.ingested_at, q.id)
         IN  <<first>> \o SortSessions(S \ {first})

\* LIMIT n
Limit(seq, n) == SubSeq(seq, 1, Min(Len(seq), n))

\* sequence seq without its k-th element
RemoveAt(seq, k) == SubSeq(seq, 1, k - 1) \o SubSeq(seq, k + 1, Len(seq))

(***************************************************************************)
(* setup-cdc.sql: get_new_sessions(batch_size)                             *)
(***************************************************************************)
get_new_sessions(batch_size) ==
    Limit(SortSessions({s \in sessions : s.ingested_at > cdc_watermark.last_ingested_at}),
          batch_size)

\* the sessions the history variable keeps a count for
SessionIds == 1..(MaxRows + MaxPrior)

\* the history of a ledger as earlier writes left it: attempt_count is the
\* number of those writes
RecordedIn(F) ==
    [sid \in SessionIds |->
        IF \E f \in F : f.session_id = sid
        THEN (CHOOSE f \in F : f.session_id = sid).attempt_count
        ELSE 0]

\* the history after a failure write on the entry of session sid has executed
Counted(sid) == [recorded EXCEPT ![sid] = @ + 1]

Init ==
    /\ now = Cooldown + 2
    /\ sessions = {}
    /\ cdc_watermark = [last_ingested_at |-> WatermarkStart,
                        last_processed_id |-> NULL,
                        records_processed |-> 0]
    /\ cdc_failed_records = {}
    /\ failed_id_seq = 0
    /\ batchSize \in 1..MaxBatchSize
    /\ isPolling = FALSE
    /\ pollTask = FALSE
    /\ retryTask = FALSE
    /\ starting = 0
    /\ orphanTasks = FALSE
    /\ recorded = RecordedIn(cdc_failed_records)
    /\ pollDue = TRUE
    /\ retryDue = TRUE
    /\ polls = <<>>
    /\ retries = <<>>
    /\ submitted = {}
    /\ openhimUp = TRUE
    /\ handed = {}
    /\ pool = "open"
    /\ resyncs = <<>>
    /\ dbFaults = TRUE
    /\ dd = noCall

(***************************************************************************)
(* Environment: the clock and the external writer of the source table.     *)
(***************************************************************************)
\* time passes; each cron schedule has a new tick to fire
ClockTick ==
    /\ now < MaxTime
    /\ now' = now + 1
    /\ pollDue' = TRUE
    /\ retryDue' = TRUE
    /\ UNCHANGED <<recorded, starting, orphanTasks, dd, dbFaults, handed, pool, resyncs, batchSize, sessions, cdc_watermark, cdc_failed_records, failed_id_seq,
                   isPolling, pollTask, retryTask, polls, retries, submitted, openhimUp>>

\* one transaction of the external writer: n rows, ingested_at = NOW() for all;
\* time, the moment the session was taken, is earlier than its ingestion
InsertSessions ==
    /\ \A s \in sessions : s.ingested_at < now
    /\ \E n \in 1..MaxBurst : \E payload \in [1..n -> SessionData] :
          /\ Cardinality(sessions) + n <= MaxRows
          /\ sessions' = sessions \cup
                { [id |-> Cardinality(sessions) + k,
                   ingested_at |-> now,
                   time |-> now - 1,
                   impilo_uid |-> ImpiloUid(Cardinality(sessions) + k),
                   data |-> payload[k]] : k \in 1..n }
    /\ UNCHANGED <<recorded, starting, orphanTasks, dd, dbFaults, handed, pool, resyncs, batchSize, now, cdc_watermark, cdc_failed_records, failed_id_seq,
                   isPolling, pollTask, retryTask, pollDue, retryDue, polls,
                   retries, submitted, openhimUp>>

\* the downstream registry goes down or comes back
OpenHIMChange ==
    /\ openhimUp' = ~openhimUp
    /\ UNCHANGED <<recorded, starting, orphanTasks, dd, dbFaults, handed, pool, resyncs, batchSize, now, sessions, cdc_watermark, cdc_failed_records, failed_id_seq,
                   isPolling, pollTask, retryTask, pollDue, retryDue, polls, retries,
                   submitted>>

(***************************************************************************)
(* setup-cdc.sql: update_watermark                                         *)
(***************************************************************************)
update_watermark(w, p_last_ingested_at, p_last_processed_id, p_records_count) ==
    [last_ingested_at |-> p_last_ingested_at,
     last_processed_id |-> p_last_processed_id,
     records_processed |-> w.records_processed + p_records_count]

\* recordFailure without the ON CONFLICT clause: every failure inserts a row
recordFailure_insertOnly(F, seq, record, errorMessage, at) ==
    F \cup { [id |-> seq + 1,
              session_id |-> record.id,
              ingested_at |-> record.time,
              attempt_count |-> 1,
              last_error |-> errorMessage,
              last_attempt_at |-> at,
              created_at |-> at,
              impilo_uid |-> record.impilo_uid,
              impilo_id |-> NULL,
              data |-> JSONstringify(record.data),
              synced |-> FALSE] }

(***************************************************************************)
(* CDCService.recordFailure: the INSERT ... ON CONFLICT (session_id) DO    *)
(* UPDATE statement, applied to table F at instant `at` (NOW()).           *)
(***************************************************************************)
recordFailure(F, seq, record, errorMessage, at) ==
    IF \E f \in F : f.session_id = record.id
    THEN { IF f.session_id = record.id
           THEN [f EXCEPT !.last_error = errorMessage,
                          !.last_attempt_at = at,
                          !.attempt_count = f.attempt_count + 1]
           ELSE f : f \in F }
    ELSE F \cup { [id |-> seq + 1,
                   session_id |-> record.id,
                   ingested_at |-> record.time,
                   attempt_count |-> 1,
                   last_error |-> errorMessage,
                   last_attempt_at |-> at,
                   created_at |-> at,
                   impilo_uid |-> record.impilo_uid,
                   impilo_id |-> NULL,
                   data |-> JSONstringify(record.data),
                   synced |-> FALSE] }

\* the value of cdc_failed_records_id_seq after recordFailure
recordFailureSeq(F, seq, record) ==
    IF \E f \in F : f.session_id = record.id THEN seq ELSE seq + 1

(***************************************************************************)
(* setup-cdc.sql: get_failed_sessions_for_retry(batch_size).  ORDER BY     *)
(* created_at leaves the order of rows with equal created_at open: the     *)
(* operator is the set of results the query may return.                    *)
(***************************************************************************)
\* the cooldown test with <= in place of <
RetryEligible_inclusive(f) ==
    /\ f.synced = FALSE
    /\ \/ f.last_attempt_at = NULL
       \/ (f.last_attempt_at # NULL /\ f.last_attempt_at <= now - Cooldown)

\* a cutoff: an entry attempted twice is no longer retried
RetryEligible_maxAttempts(f) ==
    /\ f.synced = FALSE
    /\ f.attempt_count < 2
    /\ \/ f.last_attempt_at = NULL
       \/ (f.last_attempt_at # NULL /\ f.last_attempt_at < now - Cooldown)

RetryEligible(f) ==
    /\ f.synced = FALSE
    /\ \/ f.last_attempt_at = NULL
       \/ (f.last_attempt_at # NULL /\ f.last_attempt_at < now - Cooldown)

\* the columns the function returns
RetryColumns(f) ==
    [id |-> f.id, session_id |-> f.session_id, ingested_at |-> f.ingested_at,
     attempt_count |-> f.attempt_count, last_error |-> f.last_error,
     impilo_uid |-> f.impilo_uid, impilo_id |-> f.impilo_id,
     data |-> f.data, synced |-> f.synced]

RECURSIVE OrderByCreatedAt(_)
OrderByCreatedAt(S) ==
    IF S = {} THEN { <<>> }
    ELSE UNION { { <<RetryColumns(f)>> \o rest : rest \in OrderByCreatedAt(S \ {f}) } :
                 f \in { r \in S : \A q \in S : r.created_at <= q.created_at } }

get_failed_sessions_for_retry(batch_size) ==
    { Limit(ordered, batch_size) :
        ordered \in OrderByCreatedAt({ f \in cdc_failed_records : RetryEligible(f) }) }

\* setup-cdc.sql: remove_failed_session
remove_failed_session(F, p_id) == { f \in F : f.id # p_id }

\* update_failed_session_retry writing the attempt_count the caller fetched,
\* plus one, in place of the stored attempt_count plus one
update_failed_session_retry_stale(F, p_id, p_error) ==
    LET fetched == { c \in UNION { { retries[k].batch[j].attempt_count :
                                       j \in { i \in 1..Len(retries[k].batch) :
                                                 retries[k].batch[i].id = p_id } } :
                                   k \in 1..Len(retries) } : TRUE }
    IN  { IF f.id = p_id
          THEN [f EXCEPT !.last_error = p_error,
                         !.last_attempt_at = now,
                         !.attempt_count = IF fetched = {} THEN f.attempt_count + 1
                                           ELSE (CHOOSE c \in fetched : TRUE) + 1,
                         !.synced = FALSE]
          ELSE f : f \in F }

\* setup-cdc.sql: update_failed_session_retry, p_synced defaulted to FALSE
update_failed_session_retry(F, p_id, p_error) ==
    { IF f.id = p_id
      THEN [f EXCEPT !.last_error = p_error,
                     !.last_attempt_at = now,
                     !.attempt_count = f.attempt_count + 1,
                     !.synced = FALSE]
      ELSE f : f \in F }

(***************************************************************************)
(* database/pool.ts.  The module variable pool holds a live pool ("open"), *)
(* a pool on which closePool has called end() and awaits its completion    *)
(* ("ending"), or null ("closed").  getPool returns the pool and creates   *)
(* one when there is none: its value is the state of the variable after    *)
(* the call.  A pool rejects every query once end() has been called.       *)
(***************************************************************************)
getPool == IF pool = "closed" THEN "open" ELSE pool

\* the outcomes of a query on the pool getPool returns: TRUE is success
QueryOutcomes ==
    IF pool = "ending" THEN {FALSE} ELSE IF dbFaults THEN BOOLEAN ELSE {TRUE}

(***************************************************************************)
(* CDCService.getStats: the result of a call whose two queries succeed.    *)
(* The watermark is the row of cdc_watermark for the source table, the     *)
(* count is the number of rows of cdc_failed_records, whatever they hold.  *)
(***************************************************************************)
getStats ==
    [watermark |-> cdc_watermark, failedCount |-> Cardinality(cdc_failed_records)]

(***************************************************************************)
(* CDCService.start and CDCService.stop                                    *)
(***************************************************************************)
start ==
    /\ ~isPolling
    /\ isPolling' = TRUE
    /\ \E dbOk \in QueryOutcomes :
          IF dbOk
          THEN pollTask' = TRUE /\ retryTask' = TRUE
          ELSE UNCHANGED <<pollTask, retryTask>>
    /\ pool' = getPool
    /\ UNCHANGED <<recorded, starting, orphanTasks, dd, dbFaults, handed, resyncs, batchSize, now, sessions, cdc_watermark, cdc_failed_records, failed_id_seq,
                   pollDue, retryDue, polls, retries, submitted, openhimUp>>

(***************************************************************************)
(* CDCService.start in its two steps.  startCall is the call up to the     *)
(* await of SELECT 1: it returns at once when isPolling is set and sets it *)
(* otherwise.  startReturn is the rest: a failed query throws with         *)
(* isPolling left as it is; a successful one schedules the two cron tasks  *)
(* and stores them in pollTask and retryTask, and tasks those fields held  *)
(* keep running with no reference left to stop them.                       *)
(***************************************************************************)
startCall ==
    /\ ~isPolling
    /\ starting < MaxStarts
    /\ isPolling' = TRUE
    /\ starting' = starting + 1
    /\ pool' = getPool
    /\ UNCHANGED <<recorded, orphanTasks, dd, dbFaults, handed, resyncs, batchSize, now, sessions, cdc_watermark, cdc_failed_records,
                   failed_id_seq, pollTask, retryTask, pollDue, retryDue, polls, retries, submitted, openhimUp>>

startReturn ==
    /\ starting > 0
    /\ starting' = starting - 1
    /\ \E dbOk \in QueryOutcomes :
          IF dbOk
          THEN /\ pollTask' = TRUE
               /\ retryTask' = TRUE
               /\ orphanTasks' = (orphanTasks \/ pollTask \/ retryTask)
          ELSE UNCHANGED <<pollTask, retryTask, orphanTasks>>
    /\ UNCHANGED <<recorded, dd, dbFaults, handed, pool, resyncs, batchSize, now, sessions, cdc_watermark, cdc_failed_records,
                   failed_id_seq, isPolling, pollDue, retryDue, polls, retries, submitted, openhimUp>>

stop ==
    /\ isPolling \/ pollTask \/ retryTask
    /\ isPolling' = FALSE
    /\ pollTask' = FALSE
    /\ retryTask' = FALSE
    /\ UNCHANGED <<recorded, starting, orphanTasks, dd, dbFaults, handed, pool, resyncs, batchSize, now, sessions, cdc_watermark, cdc_failed_records, failed_id_seq,
                   pollDue, retryDue, polls, retries, submitted, openhimUp>>

(***************************************************************************)
(* index.ts: the SIGTERM/SIGINT handler.  FHIRAdapterAPI.stop awaits       *)
(* CDCService.stop, which returns without waiting for a running cycle, and *)
(* then closePool, which calls pool.end(): shutdown is the handler up to   *)
(* that call.  processExit is the rest: pool.end() completes, closePool    *)
(* clears the module variable and process.exit(0) ends every cycle and     *)
(* call that is still running.                                             *)
(***************************************************************************)
shutdown ==
    /\ pool = "open"
    /\ isPolling' = FALSE
    /\ pollTask' = FALSE
    /\ retryTask' = FALSE
    /\ pool' = "ending"
    /\ UNCHANGED <<recorded, starting, orphanTasks, dd, dbFaults, handed, resyncs, batchSize, now, sessions, cdc_watermark,
                   cdc_failed_records, failed_id_seq, pollDue, retryDue, polls, retries,
                   submitted, openhimUp>>

processExit ==
    /\ pool = "ending"
    /\ pool' = "closed"
    /\ polls' = <<>>
    /\ retries' = <<>>
    /\ resyncs' = <<>>
    /\ starting' = 0
    /\ orphanTasks' = FALSE
    /\ UNCHANGED <<recorded, dd, dbFaults, handed, batchSize, now, sessions, cdc_watermark, cdc_failed_records,
                   failed_id_seq, isPolling, pollTask, retryTask, pollDue, retryDue,
                   submitted, openhimUp>>

\* pollForNewSessions calling processBatch for an empty result as well, and
\* processBatch writing the watermark of an empty batch
pollForNewSessions_emptyBatch ==
    /\ (pollTask \/ orphanTasks) /\ pollDue
    /\ Len(polls) < MaxPollCycles
    /\ pollDue' = FALSE
    /\ \E dbOk \in QueryOutcomes :
          LET rows == get_new_sessions(batchSize)
          IN  /\ IF isPolling /\ dbOk /\ Len(rows) > 0
                 THEN polls' = Append(polls, [batch |-> rows, i |-> 1, attempted |-> <<>>, called |-> <<>>])
                 ELSE UNCHANGED polls
              /\ IF isPolling /\ dbOk /\ Len(rows) = 0
                 THEN cdc_watermark' = [last_ingested_at |-> now, last_processed_id |-> NULL,
                                        records_processed |-> cdc_watermark.records_processed]
                 ELSE UNCHANGED cdc_watermark
    /\ pool' = IF isPolling THEN getPool ELSE pool
    /\ UNCHANGED <<recorded, starting, orphanTasks, dd, dbFaults, handed, resyncs, batchSize, now, sessions, cdc_failed_records, failed_id_seq,
                   isPolling, pollTask, retryTask, retryDue, retries, submitted, openhimUp>>

\* pollForNewSessions without its test of isPolling
pollForNewSessions_noRunningTest ==
    /\ (pollTask \/ orphanTasks) /\ pollDue
    /\ Len(polls) < MaxPollCycles
    /\ pollDue' = FALSE
    /\ \E dbOk \in QueryOutcomes :
          LET rows == get_new_sessions(batchSize)
          IN  IF dbOk /\ Len(rows) > 0
              THEN polls' = Append(polls, [batch |-> rows, i |-> 1, attempted |-> <<>>, called |-> <<>>])
              ELSE UNCHANGED polls
    /\ pool' = getPool
    /\ UNCHANGED <<recorded, starting, orphanTasks, dd, dbFaults, handed, resyncs, batchSize, now, sessions, cdc_watermark, cdc_failed_records, failed_id_seq,
                   isPolling, pollTask, retryTask, retryDue, retries, submitted, openhimUp>>

(***************************************************************************)
(* CDCService.pollForNewSessions, run by a tick of the poll schedule, up   *)
(* to the call of processBatch.                                            *)
(***************************************************************************)
pollForNewSessions ==
    /\ (pollTask \/ orphanTasks) /\ pollDue
    /\ Len(polls) < MaxPollCycles
    /\ pollDue' = FALSE
    /\ \E dbOk \in QueryOutcomes :
          LET rows == get_new_sessions(batchSize)
          IN  IF isPolling /\ dbOk /\ Len(rows) > 0
              THEN polls' = Append(polls, [batch |-> rows, i |-> 1, attempted |-> <<>>, called |-> <<>>])
              ELSE UNCHANGED polls
    /\ pool' = IF isPolling THEN getPool ELSE pool
    /\ UNCHANGED <<recorded, starting, orphanTasks, dd, dbFaults, handed, resyncs, batchSize, now, sessions, cdc_watermark, cdc_failed_records, failed_id_seq,
                   isPolling, pollTask, retryTask, retryDue, retries, submitted, openhimUp>>

\* processBatch without the try/catch around a row: a failure leaves the loop
processBatchStep_rethrow(k, record, dbOk) ==
    LET res == attempt(record.data, openhimUp)
    IN  /\ IF res.ok
           THEN /\ polls' = [polls EXCEPT ![k].i = @ + 1,
                                          ![k].attempted = Append(@, record.id),
                                          ![k].called = Append(@, record.id)]
                /\ submitted' = submitted \cup {record.id}
           ELSE /\ polls' = RemoveAt(polls, k)
                /\ UNCHANGED submitted
        /\ handed' = handed \cup {record.id}
        /\ UNCHANGED <<cdc_failed_records, failed_id_seq, pool, recorded>>

(***************************************************************************)
(* CDCService.processBatch: one iteration of the for loop.                 *)
(***************************************************************************)
processBatchStep(k, record, dbOk) ==
    LET res == attempt(record.data, openhimUp)
    IN  /\ polls' = [polls EXCEPT ![k].i = @ + 1,
                                  ![k].attempted = Append(@, record.id),
                                  ![k].called = IF res.called THEN Append(@, record.id) ELSE @]
        /\ handed' = handed \cup {record.id}
        /\ IF res.ok
           THEN /\ submitted' = submitted \cup {record.id}
                /\ UNCHANGED <<cdc_failed_records, failed_id_seq, pool>>
           ELSE /\ UNCHANGED submitted
                /\ pool' = getPool
                /\ IF dbOk
                   THEN /\ cdc_failed_records' =
                              recordFailure(cdc_failed_records, failed_id_seq, record, res.error, now)
                        /\ failed_id_seq' =
                              recordFailureSeq(cdc_failed_records, failed_id_seq, record)
                   ELSE UNCHANGED <<cdc_failed_records, failed_id_seq>>
        /\ recorded' = IF ~res.ok /\ dbOk THEN Counted(record.id) ELSE recorded

processBatch ==
    /\ \E k \in 1..Len(polls) :
          /\ polls[k].i <= Len(polls[k].batch)
          /\ \E dbOk \in QueryOutcomes :
                processBatchStep(k, polls[k].batch[polls[k].i], dbOk)
    /\ UNCHANGED <<starting, orphanTasks, dd, dbFaults, resyncs, batchSize, now, sessions, cdc_watermark, isPolling, pollTask, retryTask,
                   pollDue, retryDue, retries, openhimUp>>

\* updateWatermark called with the first record and the number of successes
updateWatermark_firstRecord(k, dbOk) ==
    LET records == polls[k].batch
        firstRecord == records[1]
        successCount == Cardinality({ j \in 1..Len(records) : records[j].id \in submitted })
    IN  /\ IF dbOk
           THEN cdc_watermark' = update_watermark(cdc_watermark, firstRecord.ingested_at,
                                                  firstRecord.id, successCount)
           ELSE UNCHANGED cdc_watermark
        /\ pool' = getPool
        /\ polls' = RemoveAt(polls, k)

(***************************************************************************)
(* CDCService.processBatch after the loop: updateWatermark with the last   *)
(* record of the batch; a failed write is logged and swallowed.            *)
(***************************************************************************)
updateWatermark(k, dbOk) ==
    LET records == polls[k].batch
        lastRecord == records[Len(records)]
    IN  /\ IF dbOk
           THEN cdc_watermark' = update_watermark(cdc_watermark, lastRecord.ingested_at,
                                                  lastRecord.id, Len(records))
           ELSE UNCHANGED cdc_watermark
        /\ pool' = getPool
        /\ polls' = RemoveAt(polls, k)

processBatchEnd ==
    /\ \E k \in 1..Len(polls) :
          /\ polls[k].i > Len(polls[k].batch)
          /\ \E dbOk \in QueryOutcomes : updateWatermark(k, dbOk)
    /\ UNCHANGED <<recorded, starting, orphanTasks, dd, dbFaults, handed, resyncs, batchSize, now, sessions, cdc_failed_records, failed_id_seq, isPolling,
                   pollTask, retryTask, pollDue, retryDue, retries, submitted, openhimUp>>

(***************************************************************************)
(* CDCService.retryFailedSessions, run by a tick of the retry schedule, up *)
(* to the call of retryBatch.                                              *)
(***************************************************************************)
retryFailedSessions ==
    /\ (retryTask \/ orphanTasks) /\ retryDue
    /\ Len(retries) < MaxRetryCycles
    /\ retryDue' = FALSE
    /\ \E dbOk \in QueryOutcomes : \E rows \in get_failed_sessions_for_retry(retryBatchSize) :
          IF isPolling /\ dbOk /\ Len(rows) > 0
          THEN retries' = Append(retries, [batch |-> rows, i |-> 1])
          ELSE UNCHANGED retries
    /\ pool' = IF isPolling THEN getPool ELSE pool
    /\ UNCHANGED <<recorded, starting, orphanTasks, dd, dbFaults, handed, resyncs, batchSize, now, sessions, cdc_watermark, cdc_failed_records, failed_id_seq,
                   isPolling, pollTask, retryTask, pollDue, polls, submitted, openhimUp>>

(***************************************************************************)
(* CDCService.retryBatch: one iteration of the for loop.  A success        *)
(* removes the entry; a failure (of the attempt or of the removal) updates *)
(* it; a failure of that update leaves retryBatch and ends the cycle.      *)
(***************************************************************************)
retryBatchStep(k, record, removeOk, updateOk) ==
    LET res == attempt(record.data, openhimUp)
        last == retries[k].i = Len(retries[k].batch)
    IN  /\ IF res.ok /\ removeOk
           THEN cdc_failed_records' = remove_failed_session(cdc_failed_records, record.id)
           ELSE IF updateOk
           THEN cdc_failed_records' =
                    update_failed_session_retry(cdc_failed_records, record.id,
                        IF res.ok THEN "remove_failed_session failed" ELSE res.error)
           ELSE UNCHANGED cdc_failed_records
        /\ IF res.ok THEN submitted' = submitted \cup {record.session_id}
                     ELSE UNCHANGED submitted
        /\ IF last \/ (~(res.ok /\ removeOk) /\ ~updateOk)
           THEN retries' = RemoveAt(retries, k)
           ELSE retries' = [retries EXCEPT ![k].i = @ + 1]
        /\ recorded' =
              IF ~(\E f \in cdc_failed_records : f.id = record.id) THEN recorded
              ELSE IF res.ok /\ removeOk THEN [recorded EXCEPT ![record.session_id] = 0]
              ELSE IF updateOk THEN Counted(record.session_id)
              ELSE recorded

\* retryBatch counting every re-attempt in records_processed of the watermark
retryBatch_countsRecords ==
    /\ \E k \in 1..Len(retries) :
          \E removeOk \in QueryOutcomes, updateOk \in QueryOutcomes :
              retryBatchStep(k, retries[k].batch[retries[k].i], removeOk, updateOk)
    /\ cdc_watermark' = update_watermark(cdc_watermark, cdc_watermark.last_ingested_at,
                                         cdc_watermark.last_processed_id, 1)
    /\ UNCHANGED <<starting, orphanTasks, dd, dbFaults, handed, pool, resyncs, batchSize, now, sessions, failed_id_seq, isPolling, pollTask,
                   retryTask, pollDue, retryDue, polls, openhimUp>>

retryBatch ==
    /\ \E k \in 1..Len(retries) :
          \E removeOk \in QueryOutcomes, updateOk \in QueryOutcomes :
              retryBatchStep(k, retries[k].batch[retries[k].i], removeOk, updateOk)
    /\ UNCHANGED <<starting, orphanTasks, dd, dbFaults, handed, pool, resyncs, batchSize, now, sessions, cdc_watermark, failed_id_seq, isPolling, pollTask,
                   retryTask, pollDue, retryDue, polls, openhimUp>>

(***************************************************************************)
(* SyncService: AES-256-CBC encryption and the SHA-256 hash.  A natural    *)
(* key (impilo id) is a number 1..9; its cipher text is the number plus    *)
(* 10, its hash the number plus 20, so that the three ranges are disjoint  *)
(* and a hash is not a cipher text.  The cipher text of a JSON string is   *)
(* the value with kind "cipher".                                           *)
(***************************************************************************)
\* encryptData applied to a natural key
encryptImpiloId(impiloId) == 10 + impiloId

\* encryptData applied to the JSON text of a payload
encryptData(plaintext) == [plaintext EXCEPT !.kind = "cipher"]

\* decryptData: throws unless the text is base64(iv):base64(encrypted)
decryptData(encryptedText) ==
    IF encryptedText.kind = "cipher"
    THEN [ok |-> TRUE, text |-> [encryptedText EXCEPT !.kind = "string"]]
    ELSE [ok |-> FALSE, text |-> encryptedText]

hashImpiloId(impiloId) == 20 + impiloId

decryptSyncData(encryptedImpiloId, encryptedDataStr) ==
    LET keyOk == encryptedImpiloId \in 11..19
        dec == decryptData(encryptedDataStr)
    IN  [ok |-> keyOk /\ dec.ok /\ isJSON(dec.text),
         impiloId |-> IF keyOk THEN encryptedImpiloId - 10 ELSE NULL,
         data |-> IF dec.ok /\ isJSON(dec.text) THEN JSONparse(dec.text)
                  ELSE encryptedDataStr]

(***************************************************************************)
(* setup-cdc.sql: record_failed_session, the writer of encrypted entries.  *)
(***************************************************************************)
record_failed_session(F, seq, p_session_id, p_ingested_at, p_error, p_impilo_id, p_data, p_synced, at) ==
    IF \E f \in F : f.session_id = p_session_id
    THEN { IF f.session_id = p_session_id
           THEN [f EXCEPT !.last_error = p_error,
                          !.last_attempt_at = at,
                          !.attempt_count = f.attempt_count + 1,
                          !.synced = p_synced]
           ELSE f : f \in F }
    ELSE F \cup { [id |-> seq + 1,
                   session_id |-> p_session_id,
                   ingested_at |-> p_ingested_at,
                   attempt_count |-> 1,
                   last_error |-> p_error,
                   last_attempt_at |-> at,
                   created_at |-> at,
                   impilo_uid |-> NULL,
                   impilo_id |-> p_impilo_id,
                   data |-> p_data,
                   synced |-> p_synced] }

\* processSyncedEntry with DELETE in place of the UPDATE that marks the entry
markSynced_remove(F, p_id, hashedImpiloId) == { f \in F : f.id # p_id }

\* processSyncedEntry, step 4: UPDATE cdc_failed_records SET impilo_id = $1,
\* synced = true, last_error = NULL WHERE id = $2
markSynced(F, p_id, hashedImpiloId) ==
    { IF f.id = p_id
      THEN [f EXCEPT !.impilo_id = hashedImpiloId,
                     !.synced = TRUE,
                     !.last_error = NULLTEXT]
      ELSE f : f \in F }

\* processSyncedEntry with a catch block that does not throw the error again
processSyncedEntry_swallow ==
    /\ Len(resyncs) < MaxResyncs
    /\ \E f \in cdc_failed_records : \E retryOk \in BOOLEAN :
          LET record == RetryColumns(f)
              missing == record.impilo_id = NULL
              dec == decryptSyncData(record.impilo_id, record.data)
              res == IF missing
                     THEN [ok |-> FALSE, error |-> "Missing encrypted impilo_id or data"]
                     ELSE IF ~dec.ok
                     THEN [ok |-> FALSE, error |-> "Failed to decrypt data"]
                     ELSE IF dec.data.kind # "object"
                     THEN [ok |-> FALSE, error |-> "Critical fields missing"]
                     ELSE processEntry(dec.data, openhimUp)
          IN  /\ IF res.ok
                 THEN /\ submitted' = submitted \cup {record.session_id}
                      /\ resyncs' = Append(resyncs, [record |-> record,
                                                     impiloId |-> dec.impiloId,
                                                     state |-> "sent"])
                      /\ UNCHANGED cdc_failed_records
                 ELSE /\ resyncs' = Append(resyncs, [record |-> record,
                                                     impiloId |-> dec.impiloId,
                                                     state |-> "resolved"])
                      /\ cdc_failed_records' =
                            IF retryOk
                            THEN update_failed_session_retry(cdc_failed_records, record.id,
                                                             res.error)
                            ELSE cdc_failed_records
                      /\ UNCHANGED submitted
              /\ recorded' = IF ~res.ok /\ retryOk THEN Counted(record.session_id)
                             ELSE recorded
    /\ UNCHANGED <<starting, orphanTasks, dd, dbFaults, handed, pool, batchSize, now, sessions, cdc_watermark, failed_id_seq,
                   isPolling, pollTask, retryTask, pollDue, retryDue, polls, retries,
                   openhimUp>>

(***************************************************************************)
(* AdapterService.processSyncedEntry, from its call to the completion of   *)
(* sendBundle.  The caller passes a row of cdc_failed_records.  A failure  *)
(* runs the catch block: update_failed_session_retry(id, message, false),  *)
(* whose own failure is logged, and the error is thrown again.  The        *)
(* service queries through its own Pool, which closePool does not end.     *)
(***************************************************************************)
processSyncedEntry ==
    /\ Len(resyncs) < MaxResyncs
    /\ \E f \in cdc_failed_records : \E retryOk \in BOOLEAN :
          LET record == RetryColumns(f)
              missing == record.impilo_id = NULL
              dec == decryptSyncData(record.impilo_id, record.data)
              res == IF missing
                     THEN [ok |-> FALSE, error |-> "Missing encrypted impilo_id or data"]
                     ELSE IF ~dec.ok
                     THEN [ok |-> FALSE, error |-> "Failed to decrypt data"]
                     ELSE IF dec.data.kind # "object"
                     THEN [ok |-> FALSE, error |-> "Critical fields missing"]
                     ELSE processEntry(dec.data, openhimUp)
          IN  /\ IF res.ok
                 THEN /\ submitted' = submitted \cup {record.session_id}
                      /\ resyncs' = Append(resyncs, [record |-> record,
                                                     impiloId |-> dec.impiloId,
                                                     state |-> "sent"])
                      /\ UNCHANGED cdc_failed_records
                 ELSE /\ resyncs' = Append(resyncs, [record |-> record,
                                                     impiloId |-> dec.impiloId,
                                                     state |-> "rejected"])
                      /\ cdc_failed_records' =
                            IF retryOk
                            THEN update_failed_session_retry(cdc_failed_records, record.id,
                                                             res.error)
                            ELSE cdc_failed_records
                      /\ UNCHANGED submitted
              /\ recorded' = IF ~res.ok /\ retryOk THEN Counted(record.session_id)
                             ELSE recorded
    /\ UNCHANGED <<starting, orphanTasks, dd, dbFaults, handed, pool, batchSize, now, sessions, cdc_watermark, failed_id_seq,
                   isPolling, pollTask, retryTask, pollDue, retryDue, polls, retries,
                   openhimUp>>

(***************************************************************************)
(* AdapterService.processSyncedEntry after sendBundle: the natural key is  *)
(* hashed and the entry marked synced; when that UPDATE fails the catch    *)
(* block runs and the call rejects.                                        *)
(***************************************************************************)
processSyncedEntryUpdate ==
    /\ \E k \in 1..Len(resyncs) : \E updateOk \in BOOLEAN, retryOk \in BOOLEAN :
          LET record == resyncs[k].record
              hashedImpiloId == hashImpiloId(resyncs[k].impiloId)
          IN  /\ resyncs[k].state = "sent"
              /\ recorded' = IF ~updateOk /\ retryOk
                              /\ (\E f \in cdc_failed_records : f.id = record.id)
                           THEN Counted(record.session_id)
                           ELSE recorded
              /\ IF updateOk
                 THEN /\ cdc_failed_records' =
                            markSynced(cdc_failed_records, record.id, hashedImpiloId)
                      /\ resyncs' = [resyncs EXCEPT ![k].state = "resolved"]
                 ELSE /\ cdc_failed_records' =
                            IF retryOk
                            THEN update_failed_session_retry(cdc_failed_records, record.id,
                                                             "UPDATE failed")
                            ELSE cdc_failed_records
                      /\ resyncs' = [resyncs EXCEPT ![k].state = "rejected"]
    /\ UNCHANGED <<starting, orphanTasks, dd, dbFaults, handed, pool, batchSize, now, sessions, cdc_watermark, failed_id_seq,
                   isPolling, pollTask, retryTask, pollDue, retryDue, polls, retries,
                   submitted, openhimUp>>

(***************************************************************************)
(* shared/utils/string-matching.ts.  A string is a sequence of characters; *)
(* the characters are the lower-case letters 1, 2, ... and their upper-    *)
(* case forms 11, 12, ...  A similarity is a fraction <<num, den>>.        *)
(***************************************************************************)
\* the characters and the non-empty strings of the model
Chars == (1..Letters) \cup { 10 + c : c \in 1..Letters }

Strings == UNION { [1..n -> Chars] : n \in 1..MaxStrLen }

\* String.prototype.toLowerCase
toLowerCase(str) == [i \in 1..Len(str) |-> IF str[i] > 10 THEN str[i] - 10 ELSE str[i]]

Max(a, b) == IF a > b THEN a ELSE b

RECURSIVE matrix(_, _, _, _)
\* the cell matrix[i][j] of levenshteinDistance for the lower-cased strings
matrix(s1, s2, i, j) ==
    IF i = 0 THEN j
    ELSE IF j = 0 THEN i
    ELSE LET cost == IF s1[i] = s2[j] THEN 0 ELSE 1
         IN  Min(Min(matrix(s1, s2, i - 1, j) + 1, matrix(s1, s2, i, j - 1) + 1),
                 matrix(s1, s2, i - 1, j - 1) + cost)

\* levenshteinDistance without toLowerCase
levenshteinDistance_caseSensitive(str1, str2) ==
    IF str1 = <<>> \/ str2 = <<>> THEN Max(Len(str1), Len(str2))
    ELSE matrix(str1, str2, Len(str1), Len(str2))

levenshteinDistance(str1, str2) ==
    IF str1 = <<>> \/ str2 = <<>> THEN Max(Len(str1), Len(str2))
    ELSE matrix(toLowerCase(str1), toLowerCase(str2), Len(str1), Len(str2))

RECURSIVE jaroMatches(_, _, _, _, _, _)
\* the first loop of jaroSimilarity from index i on: the matched indices of
\* s1 and of s2
jaroMatches(s1, s2, matchWindow, i, s1Matches, s2Matches) ==
    IF i > Len(s1) THEN [s1Matches |-> s1Matches, s2Matches |-> s2Matches]
    ELSE LET first == Max(1, i - matchWindow)
             last == Min(i + matchWindow, Len(s2))
             free == { j \in first..last : j \notin s2Matches /\ s1[i] = s2[j] }
         IN  IF free = {}
             THEN jaroMatches(s1, s2, matchWindow, i + 1, s1Matches, s2Matches)
             ELSE LET j == CHOOSE x \in free : \A y \in free : x <= y
                  IN  jaroMatches(s1, s2, matchWindow, i + 1,
                                  s1Matches \cup {i}, s2Matches \cup {j})

RECURSIVE matched(_, _, _)
\* the characters of s at the indices of set, from index i on, in order
matched(s, set, i) ==
    IF i > Len(s) THEN <<>>
    ELSE (IF i \in set THEN <<s[i]>> ELSE <<>>) \o matched(s, set, i + 1)

\* the return value of jaroSimilarity for the counts of its two loops
jaroValue(matches, transpositions, len1, len2) ==
    IF matches = 0 THEN <<0, 1>>
    ELSE <<2 * matches * matches * len2 + 2 * matches * matches * len1
             + (2 * matches - transpositions) * len1 * len2,
           6 * len1 * len2 * matches>>

\* the second loop of jaroSimilarity over the matched characters c1 of s1 and
\* c2 of s2: the positions at which they differ
transpositionsOf(c1, c2) == Cardinality({ k \in 1..Len(c1) : c1[k] # c2[k] })

\* jaroSimilarity after its first loop, which found the matches m
jaroAfterMatching(s1, s2, m) ==
    jaroValue(Cardinality(m.s1Matches),
              transpositionsOf(matched(s1, m.s1Matches, 1), matched(s2, m.s2Matches, 1)),
              Len(s1), Len(s2))

\* jaroSimilarity on the lower-cased strings s1 and s2
jaroLowerCased(s1, s2) ==
    jaroAfterMatching(s1, s2,
        jaroMatches(s1, s2, (Max(Len(s1), Len(s2)) \div 2) - 1, 1, {}, {}))

jaroSimilarity(str1, str2) ==
    IF str1 = <<>> \/ str2 = <<>> THEN <<0, 1>>
    ELSE IF str1 = str2 THEN <<1, 1>>
    ELSE jaroLowerCased(toLowerCase(str1), toLowerCase(str2))

\* the last loop of jaroWinklerSimilarity: the common prefix of s1 and s2, at
\* most maxPrefix = 4 characters
prefixLength(s1, s2) ==
    Cardinality({ i \in 1..Min(4, Min(Len(s1), Len(s2))) : \A k \in 1..i : s1[k] = s2[k] })

\* jaro + prefix * 0.1 * (1 - jaro)
boosted(jaro, prefix) == <<10 * jaro[1] + prefix * (jaro[2] - jaro[1]), 10 * jaro[2]>>

\* the value jaroWinklerSimilarity returns for a Jaro similarity and a prefix
winkler(jaro, prefix) == IF 10 * jaro[1] < 7 * jaro[2] THEN jaro ELSE boosted(jaro, prefix)

\* jaroWinklerSimilarity with the prefix bonus applied to every Jaro similarity
jaroWinklerSimilarity_alwaysBoost(str1, str2) ==
    boosted(jaroSimilarity(str1, str2), prefixLength(toLowerCase(str1), toLowerCase(str2)))

jaroWinklerSimilarity(str1, str2) ==
    winkler(jaroSimilarity(str1, str2), prefixLength(toLowerCase(str1), toLowerCase(str2)))

(***************************************************************************)
(* services/duplicate-detection-service.ts.  A FieldRule is a record       *)
(* [algorithm, threshold, espath, weight, null_handling,                   *)
(* null_handling_both]; its threshold is counted in hundredths and is NULL *)
(* when the rule configures none.  A MatchingRule is a record [fields,     *)
(* autoMatchThreshold, potentialMatchThreshold] whose fields map a field   *)
(* name to its FieldRule.  A patient is a record of the six values that    *)
(* extractFieldValue reads.  Weights are even, so that weight * 0.5 is an  *)
(* integer.                                                                *)
(***************************************************************************)
extractFieldValue(patient, fieldRule) ==
    LET path == fieldRule.espath
        value == CASE path = "identifier.neotreeId" -> patient.neotreeId
                   [] path = "identifier.patientId" -> patient.patientId
                   [] path = "birthDate" -> patient.birthDate
                   [] path = "family" -> patient.family
                   [] path = "given" -> patient.given
                   [] path = "gender" -> patient.gender
                   [] OTHER -> null
    IN  IF value = <<>> THEN null ELSE value

getNullScore(handling, weight) ==
    CASE handling = "conservative" -> 0
      [] handling = "moderate" -> weight \div 2
      [] handling = "greedy" -> weight
      [] OTHER -> 0

handleBothNull(fieldRule) == getNullScore(fieldRule.null_handling_both, fieldRule.weight)

\* handleOneNull reading the strategy configured for two missing values
handleOneNull_both(fieldRule) == getNullScore(fieldRule.null_handling_both, fieldRule.weight)

handleOneNull(fieldRule) == getNullScore(fieldRule.null_handling, fieldRule.weight)

\* fieldRule.threshold || fallback: an absent threshold and a threshold of 0
\* are both falsy
thresholdOr(fieldRule, fallback) ==
    IF fieldRule.threshold = NULL \/ fieldRule.threshold = 0 THEN fallback
    ELSE fieldRule.threshold

\* similarity >= threshold, for a fraction and a threshold in hundredths
atLeast(similarity, threshold) == similarity[1] * 100 >= threshold * similarity[2]

compareFields(value1, value2, fieldRule) ==
    IF value1 = null /\ value2 = null THEN handleBothNull(fieldRule)
    ELSE IF value1 = null \/ value2 = null THEN handleOneNull(fieldRule)
    ELSE CASE fieldRule.algorithm = "exact" ->
                IF value1 = value2 THEN fieldRule.weight ELSE 0
           [] fieldRule.algorithm = "levenshtein" ->
                LET distance == levenshteinDistance(value1, value2)
                    threshold == thresholdOr(fieldRule, 200)
                IN  IF distance * 100 <= threshold THEN fieldRule.weight ELSE 0
           [] fieldRule.algorithm = "jaro-winkler" ->
                IF atLeast(jaroWinklerSimilarity(value1, value2), thresholdOr(fieldRule, 85))
                THEN fieldRule.weight ELSE 0
           [] OTHER -> 0

RECURSIVE SumScores(_, _)
\* totalScore += score over the entries of fieldScores named in names
SumScores(fieldScores, names) ==
    IF names = {} THEN 0
    ELSE LET fieldName == CHOOSE n \in names : TRUE
         IN  fieldScores[fieldName] + SumScores(fieldScores, names \ {fieldName})

\* calculateMatchScore with a strict comparison against autoMatchThreshold
calculateMatchScore_strict(patient1, patient2, rule) ==
    LET fieldScores == [fieldName \in DOMAIN rule.fields |->
                          compareFields(extractFieldValue(patient1, rule.fields[fieldName]),
                                        extractFieldValue(patient2, rule.fields[fieldName]),
                                        rule.fields[fieldName])]
        totalScore == SumScores(fieldScores, DOMAIN fieldScores)
    IN  [totalScore |-> totalScore, fieldScores |-> fieldScores,
         matchLevel |-> IF totalScore > rule.autoMatchThreshold THEN "auto-match"
                        ELSE IF totalScore >= rule.potentialMatchThreshold
                             THEN "potential-match"
                        ELSE "no-match"]

calculateMatchScore(patient1, patient2, rule) ==
    LET fieldScores == [fieldName \in DOMAIN rule.fields |->
                          compareFields(extractFieldValue(patient1, rule.fields[fieldName]),
                                        extractFieldValue(patient2, rule.fields[fieldName]),
                                        rule.fields[fieldName])]
        totalScore == SumScores(fieldScores, DOMAIN fieldScores)
    IN  [totalScore |-> totalScore, fieldScores |-> fieldScores,
         matchLevel |-> IF totalScore >= rule.autoMatchThreshold THEN "auto-match"
                        ELSE IF totalScore >= rule.potentialMatchThreshold
                             THEN "potential-match"
                        ELSE "no-match"]

\* the result of calculateBestMatchScore before any rule is scored
noMatch == [totalScore |-> 0, fieldScores |-> <<>>, matchLevel |-> "no-match"]

\* the strength of a match level
Strength(matchLevel) ==
    IF matchLevel = "auto-match" THEN 2
    ELSE IF matchLevel = "potential-match" THEN 1
    ELSE 0

\* the loop body of calculateBestMatchScore with the stronger match level
\* kept, and the higher totalScore among equal levels
keepBest_strongestLevel(bestScore, score) ==
    IF \/ Strength(score.matchLevel) > Strength(bestScore.matchLevel)
       \/ /\ Strength(score.matchLevel) = Strength(bestScore.matchLevel)
          /\ score.totalScore > bestScore.totalScore
    THEN score
    ELSE bestScore

\* the loop body of calculateBestMatchScore with the last of equal scores kept
keepBest_lastWins(bestScore, score) ==
    IF score.totalScore >= bestScore.totalScore THEN score ELSE bestScore

\* the loop body of calculateBestMatchScore
keepBest(bestScore, score) ==
    IF score.totalScore > bestScore.totalScore THEN score ELSE bestScore

RECURSIVE bestFrom(_, _, _, _, _)
\* the loop of calculateBestMatchScore from rule i on
bestFrom(patient1, patient2, rules, i, bestScore) ==
    IF i > Len(rules) THEN bestScore
    ELSE bestFrom(patient1, patient2, rules, i + 1,
                  keepBest(bestScore, calculateMatchScore(patient1, patient2, rules[i])))

calculateBestMatchScore(patient1, patient2, rules) ==
    bestFrom(patient1, patient2, rules, 1, noMatch)

RECURSIVE sortMatches_ascending(_)
\* Array.prototype.sort with the comparator a.score.totalScore - b.score.totalScore
sortMatches_ascending(matches) ==
    IF matches = <<>> THEN <<>>
    ELSE LET n == Len(matches)
             rest == sortMatches_ascending(SubSeq(matches, 1, n - 1))
             x == matches[n]
             k == Cardinality({ i \in 1..Len(rest) :
                                  rest[i].score.totalScore <= x.score.totalScore })
         IN  SubSeq(rest, 1, k) \o <<x>> \o SubSeq(rest, k + 1, Len(rest))

RECURSIVE sortMatches(_)
\* Array.prototype.sort with the comparator b.score.totalScore -
\* a.score.totalScore: a stable sort, equal scores keep their order
sortMatches(matches) ==
    IF matches = <<>> THEN <<>>
    ELSE LET n == Len(matches)
             rest == sortMatches(SubSeq(matches, 1, n - 1))
             x == matches[n]
             k == Cardinality({ i \in 1..Len(rest) :
                                  rest[i].score.totalScore >= x.score.totalScore })
         IN  SubSeq(rest, 1, k) \o <<x>> \o SubSeq(rest, k + 1, Len(rest))

RECURSIVE matchesFrom(_, _, _, _)
\* the loop of findPotentialDuplicates over the entries from index i on; an
\* entry whose resource is not a Patient is filtered out
matchesFrom(patient, entry, rules, i) ==
    IF i > Len(entry) THEN <<>>
    ELSE LET candidate == entry[i]
             bestScore == calculateBestMatchScore(patient, candidate, rules)
         IN  (IF candidate.resourceType = "Patient" /\ bestScore.matchLevel # "no-match"
              THEN <<[patient |-> candidate, score |-> bestScore]>>
              ELSE <<>>) \o matchesFrom(patient, entry, rules, i + 1)

findPotentialDuplicates(patient, entry, rules) ==
    IF entry = <<>> THEN <<>>
    ELSE sortMatches(matchesFrom(patient, entry, rules, 1))

(***************************************************************************)
(* services/missing-data-handler.ts.  Here a patient is a record           *)
(* [identifier, birthDate, gender, name]: identifier is the sequence of    *)
(* its identifier values, name the sequence of its names, each a record    *)
(* [family, given]; an absent array is the empty sequence, an absent       *)
(* string is null.                                                         *)
(***************************************************************************)
\* !value, for a string that may be absent or empty
falsy(value) == value = null \/ value = <<>>

mergePatientData(newPatient, existingPatient) ==
    [identifier |-> IF newPatient.identifier = <<>> THEN existingPatient.identifier
                    ELSE newPatient.identifier,
     birthDate |-> IF falsy(newPatient.birthDate) /\ ~falsy(existingPatient.birthDate)
                   THEN existingPatient.birthDate ELSE newPatient.birthDate,
     gender |-> IF falsy(newPatient.gender) /\ ~falsy(existingPatient.gender)
                THEN existingPatient.gender ELSE newPatient.gender,
     name |-> IF /\ (newPatient.name = <<>> \/ falsy(newPatient.name[1].family))
                 /\ existingPatient.name # <<>>
              THEN existingPatient.name ELSE newPatient.name]

\* processEntry, on an auto-match, calls mergePatientData with the patients
\* held in dd
mergePatientDataCall ==
    /\ dd.op = "mergePatientData"
    /\ ~dd.called
    /\ dd' = [dd EXCEPT !.called = TRUE,
                        !.merged = mergePatientData(dd.newPatient, dd.existingPatient)]
    /\ UNCHANGED <<recorded, starting, orphanTasks, dbFaults, handed, pool, resyncs, now, sessions, cdc_watermark,
                   cdc_failed_records, failed_id_seq, batchSize, isPolling, pollTask,
                   retryTask, pollDue, retryDue, polls, retries, submitted, openhimUp>>

(***************************************************************************)
(* services/sync-service.ts: the key of the codec.  A key string is a      *)
(* record [ascii, wide]: the number of its characters that take one byte   *)
(* in UTF-8 and the number that take two.                                  *)
(***************************************************************************)
\* the key length of AES-256, in bytes
KeyLength == 32

\* keyString.length: the characters of the string
stringLength(keyString) == keyString.ascii + keyString.wide

\* Buffer.from(keyString, 'utf8').length: the bytes of the string
utf8Length(keyString) == keyString.ascii + 2 * keyString.wide

\* the static initializer of SyncService (after ConfigSchema.parse, which
\* makes the same test): it throws unless the key has 32 characters
SyncServiceInit ==
    /\ dd.op = "SyncService"
    /\ dd.state = "unloaded"
    /\ dd' = IF stringLength(dd.keyString) # KeyLength
             THEN [dd EXCEPT !.state = "failed"]
             ELSE [dd EXCEPT !.state = "constructed",
                             !.encryptionKey = utf8Length(dd.keyString)]
    /\ UNCHANGED <<recorded, starting, orphanTasks, dbFaults, handed, pool, resyncs, now, sessions, cdc_watermark,
                   cdc_failed_records, failed_id_seq, batchSize, isPolling, pollTask,
                   retryTask, pollDue, retryDue, polls, retries, submitted, openhimUp>>

\* encryptData or decryptData on the constructed service: createCipheriv and
\* createDecipheriv throw for a key that is not 32 bytes long
cipherCall ==
    /\ dd.op = "SyncService"
    /\ dd.state = "constructed"
    /\ dd.cipher = "none"
    /\ dd' = [dd EXCEPT !.cipher = IF dd.encryptionKey = KeyLength THEN "done"
                                   ELSE "Invalid key length"]
    /\ UNCHANGED <<recorded, starting, orphanTasks, dbFaults, handed, pool, resyncs, now, sessions, cdc_watermark,
                   cdc_failed_records, failed_id_seq, batchSize, isPolling, pollTask,
                   retryTask, pollDue, retryDue, polls, retries, submitted, openhimUp>>

\* compareFields calls levenshteinDistance with the strings held in dd
levenshteinDistanceCall ==
    /\ dd.op = "levenshteinDistance"
    /\ ~dd.called
    /\ dd' = [dd EXCEPT !.called = TRUE,
                        !.distance = levenshteinDistance(dd.str1, dd.str2)]
    /\ UNCHANGED <<recorded, starting, orphanTasks, dbFaults, handed, pool, resyncs, now, sessions, cdc_watermark,
                   cdc_failed_records, failed_id_seq, batchSize, isPolling, pollTask,
                   retryTask, pollDue, retryDue, polls, retries, submitted, openhimUp>>

\* compareFields calls jaroWinklerSimilarity with the strings held in dd
jaroWinklerSimilarityCall ==
    /\ dd.op = "jaroWinklerSimilarity"
    /\ ~dd.called
    /\ dd' = [dd EXCEPT !.called = TRUE,
                        !.similarity = jaroWinklerSimilarity(dd.str1, dd.str2)]
    /\ UNCHANGED <<recorded, starting, orphanTasks, dbFaults, handed, pool, resyncs, now, sessions, cdc_watermark,
                   cdc_failed_records, failed_id_seq, batchSize, isPolling, pollTask,
                   retryTask, pollDue, retryDue, polls, retries, submitted, openhimUp>>

\* a test harness calls compareFields with the arguments held in dd
compareFieldsCall ==
    /\ dd.op = "compareFields"
    /\ ~dd.called
    /\ dd' = [dd EXCEPT !.called = TRUE,
                        !.score = compareFields(dd.value1, dd.value2, dd.fieldRule)]
    /\ UNCHANGED <<recorded, starting, orphanTasks, dbFaults, handed, pool, resyncs, now, sessions, cdc_watermark,
                   cdc_failed_records, failed_id_seq, batchSize, isPolling, pollTask,
                   retryTask, pollDue, retryDue, polls, retries, submitted, openhimUp>>

\* a duplicate search calls calculateMatchScore with the arguments held in dd
calculateMatchScoreCall ==
    /\ dd.op = "calculateMatchScore"
    /\ ~dd.called
    /\ dd' = [dd EXCEPT !.called = TRUE,
                        !.score = calculateMatchScore(dd.patient1, dd.patient2, dd.rule)]
    /\ UNCHANGED <<recorded, starting, orphanTasks, dbFaults, handed, pool, resyncs, now, sessions, cdc_watermark,
                   cdc_failed_records, failed_id_seq, batchSize, isPolling, pollTask,
                   retryTask, pollDue, retryDue, polls, retries, submitted, openhimUp>>

\* a duplicate search calls calculateBestMatchScore with the arguments held in dd
calculateBestMatchScoreCall ==
    /\ dd.op = "calculateBestMatchScore"
    /\ ~dd.called
    /\ dd' = [dd EXCEPT !.called = TRUE,
                        !.score = calculateBestMatchScore(dd.patient1, dd.patient2, dd.rules)]
    /\ UNCHANGED <<recorded, starting, orphanTasks, dbFaults, handed, pool, resyncs, now, sessions, cdc_watermark,
                   cdc_failed_records, failed_id_seq, batchSize, isPolling, pollTask,
                   retryTask, pollDue, retryDue, polls, retries, submitted, openhimUp>>

\* processEntry calls findPotentialDuplicates with the arguments held in dd
findPotentialDuplicatesCall ==
    /\ dd.op = "findPotentialDuplicates"
    /\ ~dd.called
    /\ dd' = [dd EXCEPT !.called = TRUE,
                        !.matches = findPotentialDuplicates(dd.patient, dd.entry, dd.rules)]
    /\ UNCHANGED <<recorded, starting, orphanTasks, dbFaults, handed, pool, resyncs, now, sessions, cdc_watermark,
                   cdc_failed_records, failed_id_seq, batchSize, isPolling, pollTask,
                   retryTask, pollDue, retryDue, polls, retries, submitted, openhimUp>>

Next ==
    \/ compareFieldsCall
    \/ levenshteinDistanceCall
    \/ jaroWinklerSimilarityCall
    \/ SyncServiceInit
    \/ cipherCall
    \/ mergePatientDataCall
    \/ findPotentialDuplicatesCall
    \/ calculateBestMatchScoreCall
    \/ calculateMatchScoreCall
    \/ ClockTick
    \/ InsertSessions
    \/ OpenHIMChange
    \/ start
    \/ startCall
    \/ startReturn
    \/ stop
    \/ pollForNewSessions
    \/ processBatch
    \/ processBatchEnd
    \/ retryFailedSessions
    \/ retryBatch
    \/ processSyncedEntry
    \/ processSyncedEntryUpdate
    \/ shutdown
    \/ processExit

Spec == Init /\ [][Next]_vars

(***************************************************************************)
(* The poller alone: the source table, the watermark and the failures the  *)
(* poller records.                                                         *)
(***************************************************************************)
NextPoll ==
    \/ ClockTick
    \/ InsertSessions
    \/ OpenHIMChange
    \/ start
    \/ stop
    \/ pollForNewSessions
    \/ processBatch
    \/ processBatchEnd

SpecPoll == Init /\ [][NextPoll]_vars

(***************************************************************************)
(* The poller of a running service under fair scheduling.  The poll        *)
(* schedule fires every 30 seconds, several times within one instant of    *)
(* the clock: PollTick is a further tick of the schedule at the same       *)
(* instant, taken when the cycle before it is over.  Storage does not      *)
(* fail.  The schedule keeps firing, and a fetch that finds rows, the      *)
(* iterations of processBatch and the watermark write are each taken       *)
(* again and again when they stay possible.                                *)
(***************************************************************************)
InitStream ==
    /\ now = Cooldown + 2
    /\ sessions = {}
    /\ cdc_watermark = [last_ingested_at |-> WatermarkStart,
                        last_processed_id |-> NULL,
                        records_processed |-> 0]
    /\ cdc_failed_records = {}
    /\ failed_id_seq = 0
    /\ batchSize \in 1..MaxBatchSize
    /\ isPolling = FALSE
    /\ pollTask = FALSE
    /\ retryTask = FALSE
    /\ starting = 0
    /\ orphanTasks = FALSE
    /\ recorded = RecordedIn(cdc_failed_records)
    /\ pollDue = TRUE
    /\ retryDue = TRUE
    /\ polls = <<>>
    /\ retries = <<>>
    /\ submitted = {}
    /\ openhimUp = TRUE
    /\ handed = {}
    /\ pool = "open"
    /\ resyncs = <<>>
    /\ dbFaults = FALSE
    /\ dd = noCall

PollTick ==
    /\ pollTask
    /\ ~pollDue
    /\ polls = <<>>
    /\ pollDue' = TRUE
    /\ UNCHANGED <<recorded, starting, orphanTasks, dd, dbFaults, handed, pool, resyncs, batchSize, now, sessions, cdc_watermark,
                   cdc_failed_records, failed_id_seq, isPolling, pollTask, retryTask,
                   retryDue, polls, retries, submitted, openhimUp>>

NextStream ==
    \/ ClockTick
    \/ InsertSessions
    \/ start
    \/ PollTick
    \/ pollForNewSessions
    \/ processBatch
    \/ processBatchEnd

SpecStream ==
    /\ InitStream
    /\ [][NextStream]_vars
    /\ SF_vars(PollTick)
    /\ SF_vars(pollForNewSessions /\ polls' # polls)
    /\ SF_vars(processBatch)
    /\ SF_vars(processBatchEnd /\ cdc_watermark' # cdc_watermark)

(***************************************************************************)
(* The poller and the shutdown signal.                                     *)
(***************************************************************************)
NextShutdown ==
    \/ ClockTick
    \/ InsertSessions
    \/ start
    \/ pollForNewSessions
    \/ processBatch
    \/ processBatchEnd
    \/ shutdown
    \/ processExit

SpecShutdown == Init /\ [][NextShutdown]_vars

(***************************************************************************)
(* The retry scheduler alone, started on the table a previous run of the   *)
(* poller left behind: rows 1..n were ingested at instants 1 and 2, the    *)
(* registry was down or rejected them, and recordFailure recorded each at  *)
(* the instant it was ingested.  An entry may have been marked synced      *)
(* since (AdapterService.processSyncedEntry).                              *)
(***************************************************************************)
PriorRow(id, at, data) ==
    [id |-> id, ingested_at |-> at, time |-> at - 1,
     impilo_uid |-> ImpiloUid(id), data |-> data]

RECURSIVE PriorLedger(_, _)
PriorLedger(rows, n) ==
    IF n = 0 THEN {}
    ELSE recordFailure(PriorLedger(rows, n - 1), n - 1, rows[n],
                       attempt(rows[n].data, FALSE).error, rows[n].ingested_at)

InitRetry ==
    /\ now = Cooldown + 2
    /\ \E n \in 1..MaxPrior :
       \E at \in [1..n -> 1..2], data \in [1..n -> SessionData], marked \in SUBSET (1..n) :
          /\ \A j \in 1..(n - 1) : at[j] <= at[j + 1]
          /\ sessions = { PriorRow(k, at[k], data[k]) : k \in 1..n }
          /\ cdc_watermark = [last_ingested_at |-> at[n], last_processed_id |-> n,
                              records_processed |-> n]
          /\ cdc_failed_records =
                { [f EXCEPT !.synced = (f.session_id \in marked)] :
                    f \in PriorLedger([k \in 1..n |-> PriorRow(k, at[k], data[k])], n) }
          /\ failed_id_seq = n
    /\ batchSize = MaxBatchSize
    /\ isPolling = FALSE
    /\ pollTask = FALSE
    /\ retryTask = FALSE
    /\ starting = 0
    /\ orphanTasks = FALSE
    /\ recorded = RecordedIn(cdc_failed_records)
    /\ pollDue = TRUE
    /\ retryDue = TRUE
    /\ polls = <<>>
    /\ retries = <<>>
    /\ submitted = {}
    /\ openhimUp = TRUE
    /\ handed = {}
    /\ pool = "open"
    /\ resyncs = <<>>
    /\ dbFaults = TRUE
    /\ dd = noCall

NextRetry ==
    \/ ClockTick
    \/ OpenHIMChange
    \/ start
    \/ stop
    \/ retryFailedSessions
    \/ retryBatch

SpecRetry == InitRetry /\ [][NextRetry]_vars

(***************************************************************************)
(* The life cycle of the service on a database a previous run has left,    *)
(* with one entry in the ledger and one row past the watermark: start in   *)
(* its two steps, stop, and the ticks of both schedules.                   *)
(***************************************************************************)
InitLifecycle ==
    /\ now = Cooldown + 2
    /\ \E failed \in SessionData, pending \in SessionData :
          /\ sessions = { PriorRow(1, 1, failed), PriorRow(2, 2, pending) }
          /\ cdc_failed_records = PriorLedger(<<PriorRow(1, 1, failed)>>, 1)
    /\ cdc_watermark = [last_ingested_at |-> 1, last_processed_id |-> 1,
                        records_processed |-> 1]
    /\ failed_id_seq = 1
    /\ batchSize = MaxBatchSize
    /\ isPolling = FALSE
    /\ pollTask = FALSE
    /\ retryTask = FALSE
    /\ starting = 0
    /\ orphanTasks = FALSE
    /\ recorded = RecordedIn(cdc_failed_records)
    /\ pollDue = TRUE
    /\ retryDue = TRUE
    /\ polls = <<>>
    /\ retries = <<>>
    /\ submitted = {}
    /\ openhimUp = TRUE
    /\ handed = {}
    /\ pool = "open"
    /\ resyncs = <<>>
    /\ dbFaults = TRUE
    /\ dd = noCall

NextLifecycle ==
    \/ ClockTick
    \/ startCall
    \/ startReturn
    \/ stop
    \/ pollForNewSessions
    \/ processBatch
    \/ processBatchEnd
    \/ retryFailedSessions
    \/ retryBatch

SpecLifecycle == InitLifecycle /\ [][NextLifecycle]_vars

(***************************************************************************)
(* The poller and the retry scheduler on the same entry.  An earlier run   *)
(* failed on row 1, recorded the failure and ended before it wrote the     *)
(* watermark: the row is past the watermark and its entry is in the        *)
(* ledger, past its cooldown.                                              *)
(***************************************************************************)
InitAttempts ==
    /\ now = Cooldown + 2
    /\ \E failed \in SessionData :
          /\ sessions = { PriorRow(1, 1, failed) }
          /\ cdc_failed_records = PriorLedger(<<PriorRow(1, 1, failed)>>, 1)
    /\ cdc_watermark = [last_ingested_at |-> WatermarkStart,
                        last_processed_id |-> NULL,
                        records_processed |-> 0]
    /\ failed_id_seq = 1
    /\ batchSize \in 1..MaxBatchSize
    /\ isPolling = FALSE
    /\ pollTask = FALSE
    /\ retryTask = FALSE
    /\ starting = 0
    /\ orphanTasks = FALSE
    /\ recorded = RecordedIn(cdc_failed_records)
    /\ pollDue = TRUE
    /\ retryDue = TRUE
    /\ polls = <<>>
    /\ retries = <<>>
    /\ submitted = {}
    /\ openhimUp = TRUE
    /\ handed = {}
    /\ pool = "open"
    /\ resyncs = <<>>
    /\ dbFaults = TRUE
    /\ dd = noCall

NextAttempts ==
    \/ ClockTick
    \/ OpenHIMChange
    \/ start
    \/ stop
    \/ pollForNewSessions
    \/ processBatch
    \/ processBatchEnd
    \/ retryFailedSessions
    \/ retryBatch

SpecAttempts == InitAttempts /\ [][NextAttempts]_vars

(***************************************************************************)
(* The ledger under the retry scheduler and the resync path                *)
(* (processSyncedEntry).  The table holds entries 1..n recorded at         *)
(* instants 0 and 1: an entry is either one CDCService.recordFailure wrote *)
(* (the JSON text, no impilo_id) or one record_failed_session wrote with   *)
(* the encrypted natural key and payload its header describes.  The        *)
(* service is constructed at instant Cooldown + 1, when the entries of     *)
(* instant 0 are past their cooldown.                                      *)
(***************************************************************************)
RECURSIVE LedgerOf(_, _, _, _)
LedgerOf(at, data, encrypted, n) ==
    IF n = 0 THEN {}
    ELSE LET F == LedgerOf(at, data, encrypted, n - 1)
         IN  IF encrypted[n]
             THEN record_failed_session(F, n - 1, n, at[n],
                      attempt(data[n], FALSE).error, encryptImpiloId(n),
                      encryptData(JSONstringify(data[n])), FALSE, at[n])
             ELSE recordFailure(F, n - 1, PriorRow(n, at[n], data[n]),
                      attempt(data[n], FALSE).error, at[n])

InitLedger ==
    /\ now = Cooldown + 1
    /\ \E n \in 1..MaxEntries :
       \E at \in [1..n -> 0..1], data \in [1..n -> SessionData],
          encrypted \in [1..n -> BOOLEAN] :
          /\ \A j \in 1..(n - 1) : at[j] <= at[j + 1]
          /\ cdc_failed_records = LedgerOf(at, data, encrypted, n)
          /\ failed_id_seq = n
    /\ sessions = {}
    /\ cdc_watermark = [last_ingested_at |-> WatermarkStart,
                        last_processed_id |-> NULL,
                        records_processed |-> 0]
    /\ batchSize = MaxBatchSize
    /\ isPolling = FALSE
    /\ pollTask = FALSE
    /\ retryTask = FALSE
    /\ starting = 0
    /\ orphanTasks = FALSE
    /\ recorded = RecordedIn(cdc_failed_records)
    /\ pollDue = TRUE
    /\ retryDue = TRUE
    /\ polls = <<>>
    /\ retries = <<>>
    /\ submitted = {}
    /\ openhimUp = TRUE
    /\ handed = {}
    /\ pool = "open"
    /\ resyncs = <<>>
    /\ dbFaults = TRUE
    /\ dd = noCall

\* the retry scheduler on that table, over three instants
NextLedger ==
    \/ ClockTick
    \/ OpenHIMChange
    \/ start
    \/ stop
    \/ retryFailedSessions
    \/ retryBatch

SpecLedger == InitLedger /\ [][NextLedger]_vars

\* the resync path on that table
NextResync ==
    \/ ClockTick
    \/ OpenHIMChange
    \/ processSyncedEntry
    \/ processSyncedEntryUpdate

SpecResync == InitLedger /\ [][NextResync]_vars

(***************************************************************************)
(* The resync path on a ledger whose entries record_failed_session wrote.  *)
(* The natural key of an entry is encrypted or left in the clear; its      *)
(* payload is the encrypted JSON text, the encryption of a text that is    *)
(* not JSON, or a JSON text that was never encrypted.                      *)
(***************************************************************************)
Payloads ==
    { encryptData(JSONstringify(d)) : d \in SessionData }
        \cup { encryptData(garbled), JSONstringify(Obj(TRUE)) }

RECURSIVE EncryptedLedger(_, _, _, _)
EncryptedLedger(at, key, payload, n) ==
    IF n = 0 THEN {}
    ELSE record_failed_session(EncryptedLedger(at, key, payload, n - 1), n - 1, n, at[n],
             "OpenHIM request failed", key[n], payload[n], FALSE, at[n])

InitDecrypt ==
    /\ now = Cooldown + 1
    /\ \E n \in 1..MaxEntries :
       \E at \in [1..n -> 0..1], payload \in [1..n -> Payloads], clear \in SUBSET (1..n) :
          /\ \A j \in 1..(n - 1) : at[j] <= at[j + 1]
          /\ cdc_failed_records =
                EncryptedLedger(at, [k \in 1..n |-> IF k \in clear THEN k ELSE encryptImpiloId(k)],
                                payload, n)
          /\ failed_id_seq = n
    /\ sessions = {}
    /\ cdc_watermark = [last_ingested_at |-> WatermarkStart,
                        last_processed_id |-> NULL,
                        records_processed |-> 0]
    /\ batchSize = MaxBatchSize
    /\ isPolling = FALSE
    /\ pollTask = FALSE
    /\ retryTask = FALSE
    /\ starting = 0
    /\ orphanTasks = FALSE
    /\ recorded = RecordedIn(cdc_failed_records)
    /\ pollDue = TRUE
    /\ retryDue = TRUE
    /\ polls = <<>>
    /\ retries = <<>>
    /\ submitted = {}
    /\ openhimUp = TRUE
    /\ handed = {}
    /\ pool = "open"
    /\ resyncs = <<>>
    /\ dbFaults = TRUE
    /\ dd = noCall

SpecDecrypt == InitDecrypt /\ [][NextResync]_vars

(***************************************************************************)
(* The duplicate-detection engine, exercised on its own.  The CDC service  *)
(* is constructed and not started; dd holds the arguments of one call.     *)
(***************************************************************************)
\* the state of the CDC service after construction
Constructed ==
    /\ now = Cooldown + 2
    /\ sessions = {}
    /\ cdc_watermark = [last_ingested_at |-> WatermarkStart,
                        last_processed_id |-> NULL,
                        records_processed |-> 0]
    /\ cdc_failed_records = {}
    /\ failed_id_seq = 0
    /\ batchSize = MaxBatchSize
    /\ isPolling = FALSE
    /\ pollTask = FALSE
    /\ retryTask = FALSE
    /\ starting = 0
    /\ orphanTasks = FALSE
    /\ recorded = RecordedIn(cdc_failed_records)
    /\ pollDue = TRUE
    /\ retryDue = TRUE
    /\ polls = <<>>
    /\ retries = <<>>
    /\ submitted = {}
    /\ openhimUp = TRUE
    /\ handed = {}
    /\ pool = "open"
    /\ resyncs = <<>>
    /\ dbFaults = TRUE

\* the weights of the rules of the model
Weights == {4, 10}

NullHandlings == {"conservative", "moderate", "greedy"}

\* the values of FieldRule.threshold, in hundredths: absent, 0, 0.85, 1, 2
Thresholds == {NULL, 0, 85, 100, 200}

\* the field rules handed to compareFields; "soundex" is an algorithm the
\* engine does not know
CompareRules ==
    [algorithm : {"exact", "levenshtein", "jaro-winkler", "soundex"},
     threshold : Thresholds, espath : {"family"}, weight : Weights,
     null_handling : NullHandlings, null_handling_both : NullHandlings]

InitCompare ==
    /\ Constructed
    /\ \E value1 \in Strings \cup {null}, value2 \in Strings \cup {null},
          fieldRule \in CompareRules :
          dd = [op |-> "compareFields", value1 |-> value1, value2 |-> value2,
                fieldRule |-> fieldRule, called |-> FALSE, score |-> 0]

NextCompare == compareFieldsCall

SpecCompare == InitCompare /\ [][NextCompare]_vars

\* a patient whose family name and birth date are the given values
Patient(family, birthDate) ==
    [neotreeId |-> null, patientId |-> null, birthDate |-> birthDate,
     family |-> family, given |-> null, gender |-> null]

\* the field rules of a matching rule of the model, for the field of that name
ScoreRules(fieldName) ==
    [algorithm : {"exact", "levenshtein"}, threshold : {NULL}, espath : {fieldName},
     weight : Weights, null_handling : {"conservative", "moderate"},
     null_handling_both : {"conservative", "greedy"}]

\* the matching rules of the model: rules over family, birthDate or both
MatchingRules ==
    { [fields |-> fields, autoMatchThreshold |-> auto, potentialMatchThreshold |-> potential] :
        fields \in UNION { { f \in [names -> ScoreRules("family") \cup ScoreRules("birthDate")] :
                               \A n \in names : f[n].espath = n } :
                            names \in SUBSET {"family", "birthDate"} },
        auto \in {15, 20}, potential \in {8, 10} }

InitScore ==
    /\ Constructed
    /\ \E family1 \in {<<1>>, null}, birthDate1 \in {<<2>>, <<>>},
          family2 \in {<<1>>, <<2>>, null}, birthDate2 \in {<<1>>, <<2>>, <<>>},
          rule \in MatchingRules :
          dd = [op |-> "calculateMatchScore", patient1 |-> Patient(family1, birthDate1),
                patient2 |-> Patient(family2, birthDate2), rule |-> rule,
                called |-> FALSE, score |-> noMatch]

NextScore == calculateMatchScoreCall

SpecScore == InitScore /\ [][NextScore]_vars

\* the field rules of a rule of a several-rule configuration
BestFieldRules(fieldName) ==
    [algorithm : {"exact"}, threshold : {NULL}, espath : {fieldName},
     weight : Weights, null_handling : {"conservative", "greedy"},
     null_handling_both : {"conservative"}]

\* the rules of a several-rule configuration: over family, birthDate, both or
\* no field
BestRules ==
    { [fields |-> fields, autoMatchThreshold |-> auto, potentialMatchThreshold |-> potential] :
        fields \in UNION { { f \in [names -> BestFieldRules("family")
                                               \cup BestFieldRules("birthDate")] :
                               \A n \in names : f[n].espath = n } :
                            names \in SUBSET {"family", "birthDate"} },
        auto \in {15, 20}, potential \in {8, 10} }

\* the configurations of the model: one to MaxRules rules, in their order
RuleLists == UNION { [1..n -> BestRules] : n \in 1..MaxRules }

InitBest ==
    /\ Constructed
    /\ \E rules \in RuleLists, family2 \in {<<1>>, <<2>>, null},
          birthDate2 \in {<<1>>, <<2>>, <<>>} :
          dd = [op |-> "calculateBestMatchScore", patient1 |-> Patient(<<1>>, <<2>>),
                patient2 |-> Patient(family2, birthDate2), rules |-> rules,
                called |-> FALSE, score |-> noMatch]

NextBest == calculateBestMatchScoreCall

SpecBest == InitBest /\ [][NextBest]_vars

\* the rules of a configuration whose rules differ in their thresholds: a
\* rule over few fields reaches auto-match at a score at which a rule over
\* more fields reaches potential-match
LevelRules ==
    { [fields |-> fields, autoMatchThreshold |-> auto, potentialMatchThreshold |-> potential] :
        fields \in UNION { { f \in [names -> BestFieldRules("family")
                                               \cup BestFieldRules("birthDate")] :
                               \A n \in names : f[n].espath = n } :
                            names \in SUBSET {"family", "birthDate"} },
        auto \in {10, 15}, potential \in {4, 8} }

InitLevel ==
    /\ Constructed
    /\ \E rules \in UNION { [1..n -> LevelRules] : n \in 1..MaxRules },
          family2 \in {<<1>>, <<2>>, null}, birthDate2 \in {<<1>>, <<2>>, <<>>} :
          dd = [op |-> "calculateBestMatchScore", patient1 |-> Patient(<<1>>, <<2>>),
                patient2 |-> Patient(family2, birthDate2), rules |-> rules,
                called |-> FALSE, score |-> noMatch]

SpecLevel == InitLevel /\ [][NextBest]_vars

\* a resource of a search bundle
Resource(resourceType, family, birthDate) ==
    [resourceType |-> resourceType, neotreeId |-> null, patientId |-> null,
     birthDate |-> birthDate, family |-> family, given |-> null, gender |-> null]

\* the resources of the search bundles of the model: six patients and a
\* resource of another type
Resources ==
    { Resource("Patient", family, birthDate) :
        family \in {<<1>>, <<2>>, null}, birthDate \in {<<2>>, <<>>} }
    \cup {Resource("OperationOutcome", <<1>>, <<2>>)}

\* the rules of the searches of the model: the rules over both fields
SearchRules ==
    { [fields |-> [n \in {"family", "birthDate"} |->
                     IF n = "family" THEN familyRule ELSE birthDateRule],
       autoMatchThreshold |-> auto, potentialMatchThreshold |-> potential] :
        familyRule \in BestFieldRules("family"),
        birthDateRule \in BestFieldRules("birthDate"),
        auto \in {15, 20}, potential \in {8, 10} }

\* the search bundles of the model: none to MaxCandidates resources
Bundles == UNION { [1..n -> Resources] : n \in 0..MaxCandidates }

InitSearch ==
    /\ Constructed
    /\ \E rule \in SearchRules, entry \in Bundles :
          dd = [op |-> "findPotentialDuplicates",
                patient |-> Resource("Patient", <<1>>, <<2>>), entry |-> entry,
                rules |-> <<rule>>, called |-> FALSE, matches |-> <<>>]

NextSearch == findPotentialDuplicatesCall

SpecSearch == InitSearch /\ [][NextSearch]_vars

\* the values of an optional string of a patient that is merged
MergeValues == {null, <<1>>, <<2>>}

\* the patients handed to mergePatientData: no, one or two identifiers, no
\* name or one name
MergePatients ==
    [identifier : {<<>>, <<1>>, <<2, 1>>}, birthDate : MergeValues, gender : MergeValues,
     name : {<<>>} \cup { <<[family |-> family, given |-> given]>> :
                            family \in MergeValues, given \in MergeValues }]

InitMerge ==
    /\ Constructed
    /\ \E newPatient \in MergePatients, existingPatient \in MergePatients :
          dd = [op |-> "mergePatientData", newPatient |-> newPatient,
                existingPatient |-> existingPatient, called |-> FALSE,
                merged |-> newPatient]

NextMerge == mergePatientDataCall

SpecMerge == InitMerge /\ [][NextMerge]_vars

\* the strings handed to the string-matching functions: the strings of up to
\* MaxDistLen characters over two letters and an upper-case letter, the
\* empty string, and the reference words (k, i, t, e, n, s, g are the
\* letters 3 to 9; m, a, r, h are 3, 1, 4, 5)
kitten == <<3, 4, 5, 5, 6, 7>>

sitting == <<8, 4, 5, 5, 4, 7, 9>>

martha == <<3, 1, 4, 5, 6, 1>>

marhta == <<3, 1, 4, 6, 5, 1>>

\* two words that share a prefix of five characters
aaaaaa == <<1, 1, 1, 1, 1, 1>>

aaaaab == <<1, 1, 1, 1, 1, 2>>

MatchStrings ==
    UNION { [1..n -> {1, 2, 11}] : n \in 0..MaxDistLen }
    \cup {kitten, sitting, martha, marhta, aaaaaa, aaaaab}

InitDistance ==
    /\ Constructed
    /\ \E str1 \in MatchStrings, str2 \in MatchStrings :
          dd = [op |-> "levenshteinDistance", str1 |-> str1, str2 |-> str2,
                called |-> FALSE, distance |-> 0]

NextDistance == levenshteinDistanceCall

SpecDistance == InitDistance /\ [][NextDistance]_vars

InitSimilarity ==
    /\ Constructed
    /\ \E str1 \in MatchStrings, str2 \in MatchStrings :
          dd = [op |-> "jaroWinklerSimilarity", str1 |-> str1, str2 |-> str2,
                called |-> FALSE, similarity |-> <<0, 1>>]

NextSimilarity == jaroWinklerSimilarityCall

SpecSimilarity == InitSimilarity /\ [][NextSimilarity]_vars

\* the codec and its configured key, before the class is loaded
InitKey ==
    /\ Constructed
    /\ \E ascii \in 0..MaxKeyChars, wide \in 0..MaxWide :
          /\ ascii + wide <= MaxKeyChars
          /\ dd = [op |-> "SyncService", keyString |-> [ascii |-> ascii, wide |-> wide],
                   state |-> "unloaded", encryptionKey |-> NULL, cipher |-> "none"]

NextKey ==
    \/ SyncServiceInit
    \/ cipherCall

SpecKey == InitKey /\ [][NextKey]_vars

TypeOK ==
    /\ now \in 1..MaxTime
    /\ batchSize \in 1..MaxBatchSize
    /\ Cardinality(sessions) <= MaxRows
    /\ Len(polls) <= MaxPollCycles
    /\ Len(retries) <= MaxRetryCycles

(***************************************************************************)
(* Helpers of the properties.                                              *)
(***************************************************************************)
\* the ids of the rows of a batch, in order
BatchIds(batch) == [j \in 1..Len(batch) |-> batch[j].id]

\* the step taken is an iteration of processBatch by poll cycle k
PollStepped(k) ==
    /\ Len(polls') = Len(polls)
    /\ polls'[k].i = polls[k].i + 1

\* the step taken ends poll cycle k
PollEnded(k) == Len(polls') < Len(polls) /\ polls' = RemoveAt(polls, k)

\* the step taken is an iteration of retryBatch by retry cycle k
RetryStepped(k) ==
    \/ (Len(retries') < Len(retries) /\ retries' = RemoveAt(retries, k))
    \/ (Len(retries') = Len(retries) /\ retries'[k].i = retries[k].i + 1)

InLedger(sid) == \E f \in cdc_failed_records : f.session_id = sid

\* C1: every source row at or before the watermark position has been
\* processed successfully or has an entry in the failure ledger.
C1_NoRowLost ==
    \A s \in sessions :
        PosLeq(s.ingested_at, s.id,
               cdc_watermark.last_ingested_at, cdc_watermark.last_processed_id)
            => (s.id \in submitted \/ InLedger(s.id))

\* C2: the stored watermark position (timestamp, then row id) never moves
\* backwards.
C2_WatermarkMonotone ==
    [][PosLeq(cdc_watermark.last_ingested_at, cdc_watermark.last_processed_id,
              cdc_watermark'.last_ingested_at, cdc_watermark'.last_processed_id)]_vars

\* C3: at most one poll cycle is in flight at any time.
C3_OnePollInFlight == Len(polls) <= 1

\* C4: at most one retry cycle is in flight at any time.
C4_OneRetryInFlight == Len(retries) <= 1

\* C5: a failure on one row never aborts the batch: in every poll cycle the
\* rows attempted so far are the rows of the batch up to the loop index, in
\* order, the callback has been invoked for each of them that converts to an
\* entry, and a cycle ends only when every row of its batch was attempted.
C5_BatchRunsToCompletion ==
    [][/\ \A k \in 1..Len(polls') :
             LET c == polls'[k]
             IN  /\ c.attempted = SubSeq(BatchIds(c.batch), 1, c.i - 1)
                 /\ c.called = SelectSeq(c.attempted,
                        LAMBDA id : \E j \in 1..Len(c.batch) :
                            /\ c.batch[j].id = id
                            /\ convertToNeotreeEntry(c.batch[j].data).ok)
       /\ Len(polls') < Len(polls) =>
             \E k \in 1..Len(polls) :
                 /\ PollEnded(k)
                 /\ polls[k].attempted = BatchIds(polls[k].batch)]_vars

\* C5 witness: a cycle whose first row was rejected by the callback and whose
\* second row was handed to the callback afterwards.
C5_Witness ==
    \E k \in 1..Len(polls) :
        LET c == polls[k]
        IN  /\ Len(c.batch) >= 2
            /\ c.i > 2
            /\ c.batch[1].data = Obj(FALSE)
            /\ InLedger(c.batch[1].id)
            /\ c.called = <<c.batch[1].id, c.batch[2].id>>

\* C6: the watermark is written only by a cycle whose every row has been
\* attempted; the write sets the position to the (timestamp, id) of a row
\* with the greatest timestamp of the batch and adds the batch length,
\* failed rows included, to records_processed.
C6_WatermarkAfterBatch ==
    [][cdc_watermark' # cdc_watermark =>
          \E k \in 1..Len(polls) :
              LET batch == polls[k].batch
              IN  /\ PollEnded(k)
                  /\ Len(batch) > 0
                  /\ polls[k].attempted = BatchIds(batch)
                  /\ \A j \in 1..Len(batch) :
                        batch[j].ingested_at <= cdc_watermark'.last_ingested_at
                  /\ \E j \in 1..Len(batch) :
                        /\ batch[j].ingested_at = cdc_watermark'.last_ingested_at
                        /\ batch[j].id = cdc_watermark'.last_processed_id
                  /\ cdc_watermark'.records_processed =
                        cdc_watermark.records_processed + Len(batch)]_vars

\* C6 witness: the watermark was written for a batch of two rows of which one
\* failed and one succeeded.
C6_Witness ==
    /\ cdc_watermark.records_processed = 2
    /\ polls = <<>>
    /\ \E s \in sessions, t \in sessions :
          /\ s.id # t.id
          /\ t.id = cdc_watermark.last_processed_id
          /\ InLedger(s.id) /\ s.id \notin submitted
          /\ t.id \in submitted

\* C7: the ledger holds at most one entry per session id, and recording a
\* failure for a session that has an entry increments its attempt_count by
\* one and updates last_error and last_attempt_at without adding an entry.
C7_LedgerUpsert ==
    [][/\ \A f \in cdc_failed_records', g \in cdc_failed_records' :
             f.session_id = g.session_id => f = g
       /\ cdc_failed_records' # cdc_failed_records =>
             \E k \in 1..Len(polls) :
                 /\ PollStepped(k)
                 /\ LET record == polls[k].batch[polls[k].i]
                        res == attempt(record.data, openhimUp)
                    IN  /\ ~res.ok
                        /\ \A f \in cdc_failed_records :
                              f.session_id = record.id =>
                                 /\ Cardinality(cdc_failed_records') =
                                       Cardinality(cdc_failed_records)
                                 /\ \E g \in cdc_failed_records' :
                                       /\ g.session_id = record.id
                                       /\ g.id = f.id
                                       /\ g.attempt_count = f.attempt_count + 1
                                       /\ g.last_error = res.error
                                       /\ g.last_attempt_at = now
                                       /\ g.created_at = f.created_at]_vars

\* C7 witness: a session failed twice and has one entry with attempt_count 2.
C7_Witness ==
    \E f \in cdc_failed_records :
        /\ f.attempt_count = 2
        /\ \A g \in cdc_failed_records : g.session_id = f.session_id => g = f

\* C8: every ledger entry holds its payload in encrypted form only, and a
\* natural key (impilo_id), when it holds one, in encrypted form only.
C8_LedgerEncrypted ==
    \A f \in cdc_failed_records :
        /\ f.data.kind = "cipher"
        /\ f.impilo_id = NULL

C10_RetryDelivers ==
    [][\A k \in 1..Len(retries) :
          (RetryStepped(k) /\ openhimUp
             /\ JSONparse(retries[k].batch[retries[k].i].data) = Obj(TRUE))
            => retries[k].batch[retries[k].i].session_id \in submitted']_vars

\* the step taken completes resync call k: its UPDATE succeeded and the call
\* resolves
ResyncResolved(k) ==
    /\ Len(resyncs') = Len(resyncs)
    /\ resyncs[k].state = "sent"
    /\ resyncs'[k].state = "resolved"

C12_NoRecoverableData ==
    \A k \in 1..Len(resyncs) :
        resyncs[k].state = "resolved" =>
            \A f \in cdc_failed_records :
                (f.id = resyncs[k].record.id /\ f.synced) =>
                    /\ f.impilo_id \notin 11..19
                    /\ ~decryptData(f.data).ok

\* C13: a failed retry whose ledger update is executed adds 1 to the entry's
\* attempt_count, stores the error and the time of the attempt and leaves
\* synced = FALSE; and whatever its attempt_count, an unsynced entry whose
\* last attempt is more than the cooldown in the past is fetched by the
\* next retry cycle (unless the cycle's batch is full).
C13_RetryFailureUnbounded ==
    [][/\ \A k \in 1..Len(retries) :
             (RetryStepped(k) /\ cdc_failed_records' # cdc_failed_records) =>
                LET record == retries[k].batch[retries[k].i]
                IN  \A f \in cdc_failed_records :
                       f.id = record.id =>
                          \E g \in cdc_failed_records' :
                             /\ g.id = f.id
                             /\ g.attempt_count = f.attempt_count + 1
                             /\ g.last_error = attempt(record.data, openhimUp).error
                             /\ g.last_attempt_at = now
                             /\ g.synced = FALSE
       /\ Len(retries') > Len(retries) =>
             LET batch == retries'[Len(retries')].batch
             IN  \A f \in cdc_failed_records :
                    (~f.synced /\ f.last_attempt_at # NULL
                       /\ f.last_attempt_at + Cooldown < now) =>
                       \/ \E j \in 1..Len(batch) : batch[j].id = f.id
                       \/ Len(batch) = retryBatchSize]_vars

\* C13 witness: a retry cycle holds an entry that an earlier retry had
\* already failed on (the ledger recorded that retry's error and a second
\* attempt): it became a candidate again after its cooldown.
C13_Witness ==
    \E k \in 1..Len(retries) : \E j \in 1..Len(retries[k].batch) :
        LET record == retries[k].batch[j]
        IN  /\ record.attempt_count >= 2
            /\ record.last_error = "Invalid session data"
            /\ record.data.kind = "string"
            /\ JSONparse(record.data) = Obj(TRUE)
            /\ \E f \in cdc_failed_records :
                  f.id = record.id /\ f.attempt_count >= 3 /\ f.last_attempt_at = now

\* the payload fails in the callback every time, whatever the registry does
AlwaysFails(data) == ~attempt(data, TRUE).ok

\* C14: while the poll schedule of a started service keeps firing and
\* watermark writes succeed, every row that comes after a row whose
\* processing always fails is eventually taken by the poller and handed on
\* for processing.
C14_FailingRowDoesNotStall ==
    \A id \in 1..MaxRows :
        (/\ pollTask
         /\ \E s \in sessions, q \in sessions :
               /\ s.id = id
               /\ AlwaysFails(q.data)
               /\ PosLeq(q.ingested_at, q.id, s.ingested_at, s.id)
               /\ q.id # s.id)
          ~> (id \in handed)

\* C15: over the whole run the poller hands rows on in
\* non-decreasing (timestamp, id) order: when it takes a row, no row it has
\* taken before has a greater position.
C15_HandedInOrder ==
    [][\A k \in 1..Len(polls) :
          PollStepped(k) =>
             LET r == polls[k].batch[polls[k].i]
             IN  \A s \in sessions :
                    s.id \in handed =>
                       PosLeq(s.ingested_at, s.id, r.ingested_at, r.id)]_vars

\* C16: a row whose bundle the registry has accepted is never submitted a
\* second time: a poll cycle or a retry cycle that submits a row submits one
\* that was not submitted before.
C16_SubmittedOnce ==
    [][/\ \A k \in 1..Len(polls) :
             LET record == polls[k].batch[polls[k].i]
             IN  (PollStepped(k) /\ attempt(record.data, openhimUp).ok) =>
                    record.id \notin submitted
       /\ \A k \in 1..Len(retries) :
             LET record == retries[k].batch[retries[k].i]
             IN  (RetryStepped(k) /\ attempt(record.data, openhimUp).ok) =>
                    record.session_id \notin submitted]_vars

\* C17: the storage connections are released only when no poll cycle and no
\* retry cycle is in flight.
C17_ReleaseAfterCycles ==
    pool # "open" => (polls = <<>> /\ retries = <<>>)

\* the call of compareFields has returned, for two present values
Compared(algorithm) ==
    /\ dd.op = "compareFields"
    /\ dd.called
    /\ dd.value1 # null
    /\ dd.value2 # null
    /\ dd.fieldRule.algorithm = algorithm

\* the call of calculateMatchScore has returned
Scored == dd.op = "calculateMatchScore" /\ dd.called

\* the rule of the example: two exact fields of weight 10, thresholds 15 and 8
ExampleRule ==
    /\ DOMAIN dd.rule.fields = {"family", "birthDate"}
    /\ \A n \in DOMAIN dd.rule.fields :
          /\ dd.rule.fields[n].algorithm = "exact"
          /\ dd.rule.fields[n].weight = 10
          /\ dd.rule.fields[n].null_handling = "conservative"
    /\ dd.rule.autoMatchThreshold = 15
    /\ dd.rule.potentialMatchThreshold = 8

\* C18: for every rule and candidate, totalScore is the sum of the rule's
\* per-field scores, and the match level is auto-match when totalScore >=
\* autoMatchThreshold, otherwise potential-match when totalScore >=
\* potentialMatchThreshold, otherwise no-match.  With two exact fields of
\* weight 10 and thresholds 15 and 8: one match and a conservative one-null
\* give 10 and potential-match, two matches give 20 and auto-match, no match
\* gives 0 and no-match.
C18_ScoreAndLevel ==
    Scored =>
      LET names == DOMAIN dd.rule.fields
          p1 == dd.patient1
          p2 == dd.patient2
          score == dd.score
      IN  /\ DOMAIN score.fieldScores = names
          /\ \A n \in names :
                score.fieldScores[n] =
                  compareFields(extractFieldValue(p1, dd.rule.fields[n]),
                                extractFieldValue(p2, dd.rule.fields[n]),
                                dd.rule.fields[n])
          /\ score.totalScore = SumScores(score.fieldScores, names)
          /\ (score.matchLevel = "auto-match")
                <=> (score.totalScore >= dd.rule.autoMatchThreshold)
          /\ (score.matchLevel = "potential-match")
                <=> (/\ score.totalScore < dd.rule.autoMatchThreshold
                     /\ score.totalScore >= dd.rule.potentialMatchThreshold)
          /\ (score.matchLevel = "no-match")
                <=> (/\ score.totalScore < dd.rule.autoMatchThreshold
                     /\ score.totalScore < dd.rule.potentialMatchThreshold)
          /\ (ExampleRule /\ p1.family = <<1>> /\ p1.birthDate = <<2>>) =>
                /\ (p2.family = <<1>> /\ p2.birthDate = <<>>) =>
                      (score.totalScore = 10 /\ score.matchLevel = "potential-match")
                /\ (p2.family = <<1>> /\ p2.birthDate = <<2>>) =>
                      (score.totalScore = 20 /\ score.matchLevel = "auto-match")
                /\ (p2.family = <<2>> /\ p2.birthDate = <<1>>) =>
                      (score.totalScore = 0 /\ score.matchLevel = "no-match")

\* a score that sits on the boundary autoMatchThreshold has been classified
C18_Witness ==
    /\ Scored
    /\ dd.score.totalScore = dd.rule.autoMatchThreshold
    /\ dd.score.matchLevel = "auto-match"
    /\ Cardinality(DOMAIN dd.rule.fields) = 2

\* C19: when both values are present and the algorithm is exact, the field
\* scores its full weight if and only if the values are equal after case
\* normalization, and 0 otherwise.
C19_ExactCaseNormalized ==
    Compared("exact") =>
      IF toLowerCase(dd.value1) = toLowerCase(dd.value2)
      THEN dd.score = dd.fieldRule.weight
      ELSE dd.score = 0

\* C20: when both values are present and the algorithm is levenshtein, the
\* field scores its full weight if and only if the case-normalized distance
\* is at most the configured threshold, whatever that threshold is; 2 is
\* used only when the rule configures none.
C20_ConfiguredThreshold ==
    Compared("levenshtein") =>
      LET threshold == IF dd.fieldRule.threshold = NULL THEN 200
                       ELSE dd.fieldRule.threshold
          distance == matrix(toLowerCase(dd.value1), toLowerCase(dd.value2),
                             Len(dd.value1), Len(dd.value2))
      IN  IF distance * 100 <= threshold
          THEN dd.score = dd.fieldRule.weight
          ELSE dd.score = 0

\* the call of compareFields has returned
ComparedAny == dd.op = "compareFields" /\ dd.called

\* the three-tier scale: twice the score a strategy gives a weight
NullScale2(handling, weight) ==
    CASE handling = "conservative" -> 0
      [] handling = "moderate" -> weight
      [] handling = "greedy" -> 2 * weight

\* C21: a field missing on both entities scores 0, weight * 0.5 or weight
\* according to the both-missing strategy being conservative, moderate or
\* greedy; a field missing on exactly one entity scores on the same scale
\* according to the one-missing strategy; the algorithm plays no part.
C21_NullHandling ==
    ComparedAny =>
      /\ (dd.value1 = null /\ dd.value2 = null) =>
            2 * dd.score = NullScale2(dd.fieldRule.null_handling_both, dd.fieldRule.weight)
      /\ ((dd.value1 = null) # (dd.value2 = null)) =>
            2 * dd.score = NullScale2(dd.fieldRule.null_handling, dd.fieldRule.weight)

\* a field missing on one entity only was scored under a moderate strategy
\* that differs from the both-missing strategy
C21_Witness ==
    /\ ComparedAny
    /\ dd.value1 = null
    /\ dd.value2 # null
    /\ dd.fieldRule.algorithm = "levenshtein"
    /\ dd.fieldRule.null_handling = "moderate"
    /\ dd.fieldRule.null_handling_both = "greedy"
    /\ dd.score = dd.fieldRule.weight \div 2

\* the call of calculateBestMatchScore has returned
BestScored == dd.op = "calculateBestMatchScore" /\ dd.called

\* the result of rule i of the configuration held in dd
RuleScore(i) == calculateMatchScore(dd.patient1, dd.patient2, dd.rules[i])

\* rule i is the first rule whose totalScore no rule exceeds
FirstHighest(i) ==
    /\ \A j \in 1..Len(dd.rules) : RuleScore(j).totalScore <= RuleScore(i).totalScore
    /\ \A j \in 1..(i - 1) : RuleScore(j).totalScore < RuleScore(i).totalScore

\* C22: across several rules the engine returns the highest totalScore, and
\* the classification of the first-configured rule among those that reach
\* it; a later rule replaces an earlier one only with a strictly higher
\* totalScore.
C22_FirstHighestRule ==
    BestScored =>
      \A i \in 1..Len(dd.rules) :
        FirstHighest(i) =>
          /\ dd.score.totalScore = RuleScore(i).totalScore
          /\ dd.score.matchLevel = RuleScore(i).matchLevel
          /\ RuleScore(i).totalScore > 0 => dd.score = RuleScore(i)

\* two rules reached the same positive totalScore with different
\* classifications
C22_Witness ==
    /\ BestScored
    /\ Len(dd.rules) = 2
    /\ RuleScore(1).totalScore = RuleScore(2).totalScore
    /\ RuleScore(1).totalScore > 0
    /\ RuleScore(1).matchLevel # RuleScore(2).matchLevel
    /\ dd.score.matchLevel = RuleScore(1).matchLevel

\* the call of findPotentialDuplicates has returned
Searched == dd.op = "findPotentialDuplicates" /\ dd.called

\* the best score of a candidate of the bundle held in dd
BestOf(candidate) == calculateBestMatchScore(dd.patient, candidate, dd.rules)

\* the candidate is a Patient whose best score is not no-match
Qualifies(candidate) ==
    candidate.resourceType = "Patient" /\ BestOf(candidate).matchLevel # "no-match"

\* C23: findPotentialDuplicates returns exactly the candidates whose best
\* score is not no-match, each with that score, ordered by non-increasing
\* totalScore, so that the first entry has the maximum score; an empty
\* candidate set yields an empty result.
C23_MatchesSorted ==
    Searched =>
      LET matches == dd.matches
      IN  /\ \A k \in 1..Len(matches) :
                /\ Qualifies(matches[k].patient)
                /\ matches[k].score = BestOf(matches[k].patient)
          /\ \A c \in Resources :
                Cardinality({ k \in 1..Len(matches) : matches[k].patient = c })
                  = IF Qualifies(c)
                    THEN Cardinality({ i \in 1..Len(dd.entry) : dd.entry[i] = c })
                    ELSE 0
          /\ \A k \in 1..(Len(matches) - 1) :
                matches[k].score.totalScore >= matches[k + 1].score.totalScore
          /\ \A k \in 1..Len(matches) :
                matches[1].score.totalScore >= matches[k].score.totalScore
          /\ dd.entry = <<>> => matches = <<>>

\* a search over a no-match candidate and two matching candidates, the lower
\* score first in the bundle, has returned
C23_Witness ==
    /\ Searched
    /\ Len(dd.entry) = 3
    /\ Len(dd.matches) = 2
    /\ BestOf(dd.entry[1]).totalScore < BestOf(dd.entry[3]).totalScore
    /\ Qualifies(dd.entry[1])
    /\ dd.entry[2].resourceType = "Patient"
    /\ ~Qualifies(dd.entry[2])
    /\ dd.matches[1].patient = dd.entry[3]

\* the call of mergePatientData has returned
Merged == dd.op = "mergePatientData" /\ dd.called

\* C24: on a merge no field present on the new entity is overwritten: for
\* identifier, family name, given name, birth date and gender the merged
\* value is the new entity's value whenever the new entity has one.
C24_MergeKeepsNewFields ==
    Merged =>
      LET new == dd.newPatient
          merged == dd.merged
      IN  /\ new.identifier # <<>> => merged.identifier = new.identifier
          /\ ~falsy(new.birthDate) => merged.birthDate = new.birthDate
          /\ ~falsy(new.gender) => merged.gender = new.gender
          /\ \A k \in 1..Len(new.name) :
                /\ ~falsy(new.name[k].family) =>
                      (Len(merged.name) >= k /\ merged.name[k].family = new.name[k].family)
                /\ ~falsy(new.name[k].given) =>
                      (Len(merged.name) >= k /\ merged.name[k].given = new.name[k].given)

\* C25: the codec is constructed only with a key that is exactly 32 bytes
\* long: with a key of any other byte length construction fails and no
\* encrypt or decrypt operation runs with it.
C25_KeyIs32Bytes ==
    (dd.op = "SyncService" /\ utf8Length(dd.keyString) # KeyLength) =>
      (dd.state # "constructed" /\ dd.cipher = "none")

RECURSIVE EditDistance(_, _)
\* the classic edit distance: the least number of insertions, deletions and
\* substitutions that turn a into b
EditDistance(a, b) ==
    IF a = <<>> THEN Len(b)
    ELSE IF b = <<>> THEN Len(a)
    ELSE IF Head(a) = Head(b) THEN EditDistance(Tail(a), Tail(b))
    ELSE 1 + Min(EditDistance(Tail(a), Tail(b)),
                 Min(EditDistance(Tail(a), b), EditDistance(a, Tail(b))))

\* the call of levenshteinDistance has returned
Measured == dd.op = "levenshteinDistance" /\ dd.called

\* C26: levenshteinDistance(a, b) is the classic edit distance between the
\* lower-cased strings; with one string empty it is the length of the other,
\* with both empty 0; the distance of kitten and sitting is 3.
C26_ClassicEditDistance ==
    Measured =>
      /\ dd.distance = EditDistance(toLowerCase(dd.str1), toLowerCase(dd.str2))
      /\ dd.str1 = <<>> => dd.distance = Len(dd.str2)
      /\ dd.str2 = <<>> => dd.distance = Len(dd.str1)
      /\ (dd.str1 = kitten /\ dd.str2 = sitting) => dd.distance = 3

\* the distance of two strings that differ in case and by two edits has been
\* computed
C26_Witness ==
    /\ Measured
    /\ dd.str1 = <<11, 2>>
    /\ dd.str2 = <<1, 1, 1>>
    /\ dd.distance = 2

RECURSIVE CommonPrefix(_, _)
\* the length of the longest common prefix of two strings
CommonPrefix(a, b) ==
    IF a = <<>> \/ b = <<>> THEN 0
    ELSE IF Head(a) # Head(b) THEN 0
    ELSE 1 + CommonPrefix(Tail(a), Tail(b))

\* the call of jaroWinklerSimilarity has returned
Compared2 == dd.op = "jaroWinklerSimilarity" /\ dd.called

\* the Jaro similarity of the strings held in dd
JaroOf == jaroSimilarity(dd.str1, dd.str2)

\* L: the common prefix of the lower-cased strings held in dd, capped at 4
PrefixOf == Min(4, CommonPrefix(toLowerCase(dd.str1), toLowerCase(dd.str2)))

\* the fraction sim equals jaro + 0.1 * L * (1 - jaro)
IsBoosted(sim, jaro, L) ==
    sim[1] * (10 * jaro[2]) = (10 * jaro[1] + L * (jaro[2] - jaro[1])) * sim[2]

\* C27 as stated: for every pair of strings jaroWinklerSimilarity is jaro +
\* 0.1 * L * (1 - jaro), L the common prefix capped at 4, whatever the Jaro
\* similarity.
C27_BoostAlways == Compared2 => IsBoosted(dd.similarity, JaroOf, PrefixOf)

\* C27, amended: jaroWinklerSimilarity is the Jaro similarity itself when the
\* Jaro similarity is below 0.7, and jaro + 0.1 * L * (1 - jaro) otherwise, L
\* the common prefix of the lower-cased strings capped at 4.
C27_BoostFromThreshold ==
    Compared2 =>
      IF 10 * JaroOf[1] < 7 * JaroOf[2]
      THEN dd.similarity[1] * JaroOf[2] = JaroOf[1] * dd.similarity[2]
      ELSE IsBoosted(dd.similarity, JaroOf, PrefixOf)

\* the similarity of two strings with a common prefix and a Jaro similarity
\* below 0.7 has been computed
C27_Witness ==
    /\ Compared2
    /\ 10 * JaroOf[1] < 7 * JaroOf[2]
    /\ JaroOf[1] > 0
    /\ PrefixOf > 0

\* the step taken is a tick of the poll schedule whose fetch finds no row
PolledNothing ==
    /\ pollDue /\ ~pollDue'
    /\ isPolling
    /\ get_new_sessions(batchSize) = <<>>

\* C28: a poll that fetches zero rows changes nothing: the watermark
\* (position and records_processed) and the ledger are the same after the
\* poll as before it, and no batch is processed.
C28_EmptyPollNoEffect ==
    [][PolledNothing =>
          /\ cdc_watermark' = cdc_watermark
          /\ cdc_failed_records' = cdc_failed_records
          /\ failed_id_seq' = failed_id_seq
          /\ polls' = polls
          /\ submitted' = submitted]_vars

\* the poll schedule has fired at an instant at which every row of the
\* source table is at or below the watermark an earlier cycle wrote
C28_Witness ==
    /\ isPolling /\ pollTask /\ ~pollDue
    /\ polls = <<>>
    /\ sessions # {}
    /\ cdc_watermark.records_processed > 0
    /\ cdc_watermark.last_ingested_at < now
    /\ \A s \in sessions : s.ingested_at <= cdc_watermark.last_ingested_at
    /\ get_new_sessions(batchSize) = <<>>

\* the rows a fetch returns begin with the rows of the batch
FetchesAgain(rows, batch) ==
    Len(rows) >= Len(batch) /\ SubSeq(rows, 1, Len(batch)) = batch

\* C29: if the watermark write at the end of a batch fails, the watermark is
\* left unchanged and the next poll tick fetches the rows of that batch
\* again: after the failed write the rows are what get_new_sessions returns.
\* (A write that succeeds adds the length of the batch to records_processed.)
C29_FailedWriteReplays ==
    [][\A k \in 1..Len(polls) :
          (PollEnded(k) /\ cdc_watermark'.records_processed = cdc_watermark.records_processed) =>
             /\ cdc_watermark' = cdc_watermark
             /\ FetchesAgain(get_new_sessions(batchSize)', polls[k].batch)]_vars

\* the step taken is poll cycle k failing on the row it is at and failing to
\* record the failure: recordFailure, when its statement executes, changes
\* the ledger (a new entry or a greater attempt_count)
LedgerWriteFailed(k) ==
    /\ polls[k].i <= Len(polls[k].batch)
    /\ PollStepped(k) \/ PollEnded(k)
    /\ ~attempt(polls[k].batch[polls[k].i].data, openhimUp).ok
    /\ cdc_failed_records' = cdc_failed_records

\* C30: if the ledger write fails while a poll cycle is recording a row's
\* failure, the cycle aborts there and never writes the watermark.
C30_LedgerFailureAborts ==
    [][\A k \in 1..Len(polls) :
          /\ LedgerWriteFailed(k) => (PollEnded(k) /\ cdc_watermark' = cdc_watermark)
          /\ (PollEnded(k) /\ cdc_watermark' # cdc_watermark) =>
                \A j \in 1..Len(polls[k].batch) :
                   \/ polls[k].batch[j].id \in submitted
                   \/ InLedger(polls[k].batch[j].id)]_vars

(***************************************************************************)
(* C31.  Once stop() has returned and until start() is called again, a     *)
(* tick of either schedule starts no poll cycle and no retry cycle, and    *)
(* changes neither the watermark, the ledger, the set of submitted         *)
(* sessions nor the pool.                                                  *)
(***************************************************************************)
\* a step that fires a tick of the poll or of the retry schedule
Tick == (pollDue /\ ~pollDue') \/ (retryDue /\ ~retryDue')

C31_NoTickAfterStop ==
    [][(~isPolling /\ Tick) =>
          /\ polls' = polls
          /\ retries' = retries
          /\ cdc_watermark' = cdc_watermark
          /\ cdc_failed_records' = cdc_failed_records
          /\ submitted' = submitted
          /\ handed' = handed
          /\ pool' = pool]_vars

\* stop() fell into the await of start(): the tasks were scheduled after it,
\* both ticks have fired with rows to fetch and entries to retry, and no
\* cycle runs
C31_TickedWhileStopped ==
    /\ ~isPolling /\ pollTask /\ retryTask
    /\ ~pollDue /\ ~retryDue
    /\ polls = <<>> /\ retries = <<>>
    /\ submitted = {} /\ handed = {}
    /\ Len(get_new_sessions(batchSize)) > 0
    /\ \E rows \in get_failed_sessions_for_retry(retryBatchSize) : Len(rows) > 0

(***************************************************************************)
(* C32.  A call of processSyncedEntry on an unsynced entry whose natural   *)
(* key or payload cannot be decrypted, or whose decrypted payload is not   *)
(* JSON, rejects: it is not sent downstream, nothing is submitted, and the *)
(* entry stays in the ledger, unsynced, with the natural key and payload   *)
(* it had.                                                                 *)
(***************************************************************************)
\* the step is a call of processSyncedEntry
ResyncCalled == Len(resyncs') = Len(resyncs) + 1

\* the record of that call holds a key and a payload that decryptSyncData
\* fails on
Undecipherable(record) ==
    /\ record.impilo_id # NULL
    /\ \/ record.impilo_id \notin { encryptImpiloId(k) : k \in 1..9 }
       \/ record.data.kind # "cipher"
       \/ record.data.of = "none"

C32_DecryptFailureSurfaced ==
    [][ResyncCalled =>
          LET call == resyncs'[Len(resyncs')]
          IN  (Undecipherable(call.record) /\ ~call.record.synced) =>
                 /\ call.state = "rejected"
                 /\ submitted' = submitted
                 /\ \E f \in cdc_failed_records' :
                       /\ f.id = call.record.id
                       /\ f.synced = FALSE
                       /\ f.impilo_id = call.record.impilo_id
                       /\ f.data = call.record.data
                 /\ Cardinality(cdc_failed_records') = Cardinality(cdc_failed_records)]_vars

\* a call on an entry whose payload decrypts to a text that is not JSON was
\* rejected, and its failure is recorded on the entry
C32_ParseFailureRejected ==
    \E k \in 1..Len(resyncs) :
       /\ resyncs[k].state = "rejected"
       /\ resyncs[k].record.data = encryptData(garbled)
       /\ resyncs[k].record.impilo_id \in { encryptImpiloId(j) : j \in 1..9 }
       /\ \E f \in cdc_failed_records :
             /\ f.id = resyncs[k].record.id
             /\ f.last_error = "Failed to decrypt data"
             /\ ~f.synced /\ f.data = encryptData(garbled)

(***************************************************************************)
(* C33.  The failure count getStats reports is the number of ledger        *)
(* entries with synced = false, and the watermark it reports is the stored *)
(* watermark.                                                              *)
(***************************************************************************)
C33_StatsCountOutstanding ==
    /\ getStats.failedCount = Cardinality({ f \in cdc_failed_records : ~f.synced })
    /\ getStats.watermark = cdc_watermark

(***************************************************************************)
(* C34.  While the poll schedule of a started service keeps firing and     *)
(* every query succeeds, a row that shares its timestamp with the stored   *)
(* watermark and has a larger id than the row the watermark was written    *)
(* for is eventually fetched and taken by the poller.                      *)
(***************************************************************************)
\* row id was left behind by a batch that ended on a row of its timestamp
BehindBoundary(id) ==
    \E s \in sessions :
       /\ s.id = id
       /\ s.ingested_at = cdc_watermark.last_ingested_at
       /\ cdc_watermark.last_processed_id # NULL
       /\ s.id > cdc_watermark.last_processed_id

C34_SharedTimestampFetched ==
    \A id \in 1..MaxRows : (pollTask /\ BehindBoundary(id)) ~> (id \in handed)

(***************************************************************************)
(* C35.  When the connectivity check of the only start() call in flight    *)
(* fails, the service is left not running: isPolling is false, so that a   *)
(* later start() is not turned away by its first test.                     *)
(***************************************************************************)
\* the step taken is the return of the only start() call in flight, and it
\* scheduled no task
StartFailed ==
    /\ starting = 1 /\ starting' = 0
    /\ ~pollTask /\ ~pollTask'
    /\ ~retryTask /\ ~retryTask'

C35_FailedStartNotRunning == [][StartFailed => ~isPolling']_vars

(***************************************************************************)
(* C36.  The match level calculateBestMatchScore returns.                  *)
(***************************************************************************)
\* the strongest level a rule of the configuration held in dd assigns
StrongestLevel ==
    CHOOSE n \in 0..2 :
       /\ \E i \in 1..Len(dd.rules) : Strength(RuleScore(i).matchLevel) = n
       /\ \A i \in 1..Len(dd.rules) : Strength(RuleScore(i).matchLevel) <= n

\* the rules of the configuration have the same thresholds
SameThresholds ==
    \A i, j \in 1..Len(dd.rules) :
       /\ dd.rules[i].autoMatchThreshold = dd.rules[j].autoMatchThreshold
       /\ dd.rules[i].potentialMatchThreshold = dd.rules[j].potentialMatchThreshold

\* C36 as stated: the level returned is the strongest level that a
\* configured rule assigns to the pair.
C36_StrongestLevelReturned ==
    BestScored => Strength(dd.score.matchLevel) = StrongestLevel

\* C36: the level returned is the level of the first rule with the highest
\* totalScore, and no-match when no rule scores above 0; it is the strongest
\* level a rule assigns when the rules have the same thresholds.
C36_LevelOfHighestScore ==
    BestScored =>
       /\ \A i \in 1..Len(dd.rules) :
             (FirstHighest(i) /\ RuleScore(i).totalScore > 0) =>
                 dd.score.matchLevel = RuleScore(i).matchLevel
       /\ (\A i \in 1..Len(dd.rules) : RuleScore(i).totalScore = 0) =>
                 dd.score.matchLevel = "no-match"
       /\ SameThresholds => Strength(dd.score.matchLevel) = StrongestLevel

\* two rules of different thresholds: the second classifies the pair as
\* auto-match at a lower totalScore than the first, which classifies it as
\* potential-match and is the one returned
C36_AutoMatchOutranked ==
    /\ BestScored
    /\ Len(dd.rules) = 2
    /\ RuleScore(1).matchLevel = "potential-match"
    /\ RuleScore(2).matchLevel = "auto-match"
    /\ RuleScore(2).totalScore < RuleScore(1).totalScore
    /\ dd.score.matchLevel = "potential-match"

(***************************************************************************)
(* C37.  No step of the retry scheduler, be it the tick that fetches the   *)
(* entries or a re-attempt that succeeds or fails, changes the watermark:  *)
(* position and records_processed are after the step what they were        *)
(* before it.                                                              *)
(***************************************************************************)
\* the step taken is a tick of the retry schedule or a re-attempt
RetryCycleStep == (retryDue /\ ~retryDue') \/ retries' # retries

C37_RetryLeavesWatermark == [][RetryCycleStep => cdc_watermark' = cdc_watermark]_vars

\* a retry cycle has re-attempted the entry of the earlier run and ended, and
\* the watermark is the one that run left
C37_RetriedAtSameWatermark ==
    /\ retries = <<>>
    /\ \E f \in cdc_failed_records : f.session_id = 1 /\ f.attempt_count = 2
    /\ cdc_watermark = [last_ingested_at |-> 1, last_processed_id |-> 1,
                        records_processed |-> 1]

(***************************************************************************)
(* C38.  The attempt_count of every ledger entry is the number of failure  *)
(* writes executed on the entry of its session since the entry was         *)
(* created, whatever the order in which the upsert of the poller and the   *)
(* update of the retry scheduler reach it.                                 *)
(***************************************************************************)
C38_AttemptCountExact ==
    \A f \in cdc_failed_records : f.attempt_count = recorded[f.session_id]

\* within one instant the poller has failed on row 1 again and a retry cycle
\* has failed on its entry: three failures are recorded and counted
C38_BothWritersCounted ==
    /\ now = Cooldown + 2
    /\ 1 \in handed
    /\ polls = <<>> /\ retries = <<>>
    /\ recorded[1] = 3
    /\ \E f \in cdc_failed_records : f.session_id = 1 /\ f.attempt_count = 3

====
